---- MODULE Spec2Model ----
(***************************************************************************)
(* A model of reconcile_kfp.py: the reconciliation of declared experiments *)
(* and recurring runs (jobs) into a Kubeflow Pipelines namespace.          *)
(*                                                                         *)
(* One behaviour is a sequence of runs of main() against one remote        *)
(* platform with one configuration.  Every platform call of main() is one  *)
(* action; the control flow between two calls is folded into the action    *)
(* of the earlier call.  A call that raises leaves the platform unchanged  *)
(* and ends the run (main() catches nothing).                              *)
(***************************************************************************)
EXTENDS Integers, Sequences, FiniteSets, TLC

VARIABLES
    dry_run,                 \* args.dry_run
    experiments,             \* experiments["experiments"]
    recurring_runs,          \* recurring_runs["recurring_runs"]
    github,                  \* git host: file path -> what a fetch of it meets
    remote_experiments,      \* platform: experiment name -> experiment
    remote_jobs,             \* platform: the set of ApiJob in the namespace
    next_id,                 \* platform: next id it hands out
    now,                     \* the clock, in seconds
    pc,                      \* position of main()
    run,                     \* number of the current run of main()
    exp_i,                   \* index of the experiment loop
    job_i,                   \* index of the validation / reconcile loop
    experiment_api,          \* main(): experiment_api
    experiment_names_to_id,  \* main(): experiment_names_to_id
    found_job_names,         \* main(): found_job_names
    resolved,                \* job index -> what validation stored in pipeline_source
    page_token,              \* get_existing_recurring_runs(): page_token
    listed,                  \* get_existing_recurring_runs(): recurring_runs
    existing_scheduled_runs, \* main(): existing_scheduled_runs
    latest_scheduled_run,    \* main(): latest_scheduled_run, None as <<>>
    latest_is_up_to_date,    \* main(): latest_is_up_to_date
    new_scheduled_run,       \* main(): new_scheduled_run, None as <<>>
    loop_k,                  \* index of the disable-others / delete loop
    status,                  \* "running", or how the current run ended
    faults,                  \* platform calls that have raised so far
    calls,                   \* history: the platform calls of the current run
    previous,                \* history: how the previous run ended
    head,                    \* git host: the commit the git reference points to
    cache,                   \* .cache: commit hash -> the chunks of the cached file
    fetchers,                \* the calls of download_github_file in progress
    fetch_count,             \* the calls of download_github_file begun
    doc_1,                   \* compare_workflows: workflow_1
    doc_2,                   \* compare_workflows: workflow_2
    ignored,                 \* compare_workflows: ignore_keys
    tolerance,               \* compare_workflows: float_tol
    compared,                \* history: the results of compare_workflows
    call_args,               \* the arguments of a function that is called once
    call_result              \* what the call returned, or the exit status

program_vars == << dry_run, experiments, recurring_runs, github, remote_experiments, remote_jobs,
           next_id, now, pc, run, exp_i, job_i, experiment_api,
           experiment_names_to_id, found_job_names, resolved, page_token, listed,
           existing_scheduled_runs, latest_scheduled_run, latest_is_up_to_date,
           new_scheduled_run, loop_k, status, faults, calls, previous >>

fetch_vars == << head, cache, fetchers, fetch_count >>

compare_vars == << doc_1, doc_2, ignored, tolerance, compared >>

call_vars == << call_args, call_result >>

vars == << program_vars, fetch_vars, compare_vars, call_vars >>

config_vars == << dry_run, experiments, recurring_runs, github >>

local_vars == << existing_scheduled_runs, latest_scheduled_run, latest_is_up_to_date,
                 new_scheduled_run >>

experiment_vars == << experiment_api, experiment_names_to_id >>

(***************************************************************************)
(* Bounds of the model.                                                    *)
(***************************************************************************)
MaxExperiments == 2     \* declared experiments
MaxJobs == 2            \* declared recurring runs
MaxVersions == 3        \* remote versions of one job name before the first run
MaxKeep == 2            \* largest declared keep_history
MaxRuns == 2            \* runs of main() in one behaviour
PageSize == 2           \* jobs the platform returns per list_jobs page
MaxFaults == 1          \* platform calls that raise in one behaviour
MaxParameters == 2      \* declared pipeline_parameters of one recurring run
MaxCommits == 2         \* commits the git reference points to, one after the other
NumChunks == 2          \* chunks of 8192 bytes of the fetched file
MaxFetchers == 2        \* processes that call download_github_file at a time
MaxFetches == 2         \* calls of download_github_file in one behaviour

(***************************************************************************)
(* Values.  None is the string "None" where the field holds strings, 0     *)
(* where it holds ids or numbers; an object that may be None is a sequence *)
(* of at most one element.                                                 *)
(***************************************************************************)
None == "None"
NoneId == 0

DefaultRunnerSA == "default-editor"

ExperimentName(i) == IF i = 1 THEN "e1" ELSE IF i = 2 THEN "e2" ELSE "e3"
ExperimentNames == {"e1", "e2", "e3"}
JobNames == {"a", "a__b"}

\* a job name as the characters of its string
Spelling(job_name) ==
    IF job_name = "a" THEN << "a" >> ELSE << "a", "_", "_", "b" >>

Min(a, b) == IF a <= b THEN a ELSE b

(***************************************************************************)
(* Documents: maps, sequences and scalars, tagged with their runtime type. *)
(***************************************************************************)
StrDoc(s) == [t |-> "str", v |-> s]
IntDoc(n) == [t |-> "int", v |-> n]
NoneDoc == [t |-> "none", v |-> 0]
MapDoc(f) == [t |-> "dict", v |-> f]
ListDoc(s) == [t |-> "list", v |-> s]
BoolDoc(b) == [t |-> "bool", v |-> b]

\* a float: finite, in units of 1e-10, or inf, -inf, nan
FloatDoc(kind, units) == [t |-> "float", v |-> [kind |-> kind, units |-> units]]

\* the default of float_tol, 1e-9, in units of 1e-10
FLOAT_TOL == 10

\* item_1 - item_2 of two floats
FloatSub(a, b) ==
    IF a.kind = "nan" \/ b.kind = "nan" THEN [kind |-> "nan", units |-> 0]
    ELSE IF a.kind = "finite" /\ b.kind = "finite"
         THEN [kind |-> "finite", units |-> a.units - b.units]
    ELSE IF a.kind = b.kind THEN [kind |-> "nan", units |-> 0]
    ELSE IF a.kind = "finite"
         THEN [kind |-> IF b.kind = "inf" THEN "-inf" ELSE "inf", units |-> 0]
    ELSE [kind |-> a.kind, units |-> 0]

\* abs(x) of a float
FloatAbs(x) ==
    IF x.kind = "finite" THEN [x EXCEPT !.units = IF x.units < 0 THEN -x.units ELSE x.units]
    ELSE IF x.kind = "nan" THEN x
    ELSE [kind |-> "inf", units |-> 0]

\* mutant: a difference equal to the tolerance counts as smaller
FloatLess_OrEqual(x, tol) == x.kind = "-inf" \/ (x.kind = "finite" /\ x.units <= tol)

\* x < tol of a float and a finite tolerance: false for inf and for nan
FloatLess(x, tol) == x.kind = "-inf" \/ (x.kind = "finite" /\ x.units < tol)

IGNORE_KEYS == {"pipelines.kubeflow.org/pipeline_compilation_time",
                "pipelines.kubeflow.org/kfp_sdk_version"}

\* mutant: a key that holds None counts as absent
KeysOf_NotNone(item, ignore_keys) ==
    {key \in DOMAIN item.v : key \notin ignore_keys /\ item.v[key].t # "none"}

\* the keys of a dict that are not ignored
KeysOf(item, ignore_keys) == {key \in DOMAIN item.v : key \notin ignore_keys}

\* item.get(key)
Get(item, key) == IF key \in DOMAIN item.v THEN item.v[key] ELSE NoneDoc

RECURSIVE compare_recursive(_, _, _, _, _)
compare_recursive(item_1, item_2, current_key, ignore_keys, float_tol) ==
    IF item_1.t = "none" /\ item_2.t = "none" THEN TRUE
    ELSE IF item_1.t = "none" \/ item_2.t = "none" THEN FALSE
    ELSE IF current_key \in ignore_keys THEN TRUE
    ELSE IF item_1.t # item_2.t THEN FALSE
    ELSE IF item_1.t = "dict" THEN
        /\ KeysOf(item_1, ignore_keys) = KeysOf(item_2, ignore_keys)
        /\ \A key \in KeysOf(item_1, ignore_keys) :
              compare_recursive(Get(item_1, key), Get(item_2, key), key, ignore_keys,
                                float_tol)
    ELSE IF item_1.t = "list" THEN
        /\ Len(item_1.v) = Len(item_2.v)
        /\ \A index \in 1..Len(item_1.v) :
              compare_recursive(item_1.v[index], item_2.v[index], None, ignore_keys,
                                float_tol)
    ELSE IF item_1.t = "float" THEN FloatLess(FloatAbs(FloatSub(item_1.v, item_2.v)), float_tol)
    ELSE item_1.v = item_2.v

compare_workflows(workflow_1, workflow_2) ==
    compare_recursive(workflow_1, workflow_2, None, IGNORE_KEYS, FLOAT_TOL)

\* compare_workflows called with its ignore_keys and float_tol arguments
compare_workflows_ignoring(workflow_1, workflow_2, ignore_keys, float_tol) ==
    compare_recursive(workflow_1, workflow_2, None, ignore_keys, float_tol)

\* mutant: the copy of compare_rendered_pipelines.py compares for identity
rendered_compare_recursive_Exact(item_1, item_2, current_key, ignore_keys, float_tol) ==
    item_1 = item_2

\* compare_recursive of compare_workflows in compare_rendered_pipelines.py
RECURSIVE rendered_compare_recursive(_, _, _, _, _)
rendered_compare_recursive(item_1, item_2, current_key, ignore_keys, float_tol) ==
    IF item_1.t = "none" /\ item_2.t = "none" THEN TRUE
    ELSE IF item_1.t = "none" \/ item_2.t = "none" THEN FALSE
    ELSE IF current_key \in ignore_keys THEN TRUE
    ELSE IF item_1.t # item_2.t THEN FALSE
    ELSE IF item_1.t = "dict" THEN
        /\ KeysOf(item_1, ignore_keys) = KeysOf(item_2, ignore_keys)
        /\ \A key \in KeysOf(item_1, ignore_keys) :
              rendered_compare_recursive(Get(item_1, key), Get(item_2, key), key,
                                         ignore_keys, float_tol)
    ELSE IF item_1.t = "list" THEN
        /\ Len(item_1.v) = Len(item_2.v)
        /\ \A index \in 1..Len(item_1.v) :
              rendered_compare_recursive(item_1.v[index], item_2.v[index], None,
                                         ignore_keys, float_tol)
    ELSE IF item_1.t = "float" THEN FloatLess(FloatAbs(FloatSub(item_1.v, item_2.v)), float_tol)
    ELSE item_1.v = item_2.v

\* compare_workflows of compare_rendered_pipelines.py
rendered_compare_workflows(workflow_1, workflow_2, ignore_keys, float_tol) ==
    rendered_compare_recursive(workflow_1, workflow_2, None, ignore_keys, float_tol)

\* a compiled workflow: its template image and the compile-time stamp
Workflow(image, stamp) ==
    MapDoc([k \in {"apiVersion", "kind", "metadata", "spec"} |->
          CASE k = "apiVersion" -> StrDoc("argoproj.io/v1alpha1")
            [] k = "kind" -> StrDoc("Workflow")
            [] k = "metadata" ->
                 MapDoc([a \in {"annotations"} |->
                       MapDoc([n \in {"pipelines.kubeflow.org/pipeline_compilation_time"} |->
                             StrDoc(stamp)])])
            [] k = "spec" -> MapDoc([s \in {"templates"} |-> ListDoc(<< StrDoc(image) >>)])])

(***************************************************************************)
(* The configuration.                                                      *)
(***************************************************************************)
\* the files of the git host the configuration refers to
PipelinePath(job_name) == IF job_name = "a" THEN "a/pipeline.yaml" ELSE "b/pipeline.yaml"
ParameterPath == "params/message.txt"
Paths == {PipelinePath("a"), PipelinePath("a__b"), ParameterPath}

\* one entry of recurring_runs.yaml, after schema validation
RecurringRunSpec(name, experiment, enabled, keep_history) ==
    [keep_history |-> keep_history,
     pipeline_source |-> [file_path |-> PipelinePath(name)],
     pipeline_parameters |-> << [name |-> "message", value |-> "", valueFrom |-> None] >>,
     job |-> [enabled |-> enabled,
              name |-> name,
              description |-> "nightly",
              experiment |-> experiment,
              max_concurrency |-> 1,
              service_account |-> None,
              trigger |-> [catchup |-> TRUE,
                           start_date |-> None,
                           end_date |-> None,
                           cron |-> "0 0 * * * *",
                           interval_seconds |-> NoneId]]]

\* the same entry with another job.trigger.cron / job.trigger.interval_seconds
WithTrigger(spec, cron, interval_seconds) ==
    [spec EXCEPT !.job.trigger.cron = cron,
                 !.job.trigger.interval_seconds = interval_seconds]

\* RECURRING_RUNS_SCHEMA, job.trigger.oneOf: exactly one of the two branches
\* (cron is a string, interval_seconds is an integer) is valid
trigger_oneOf(trigger) ==
    LET cron_branch == trigger.cron # None
        interval_branch == trigger.interval_seconds # NoneId
    IN  Cardinality({b \in {"cron", "interval_seconds"} :
                        IF b = "cron" THEN cron_branch ELSE interval_branch}) = 1

\* validate_schema(recurring_runs_validator, recurring_runs)
recurring_runs_is_valid(runs) ==
    \A j \in 1..Len(runs) :
        /\ runs[j].keep_history >= -1
        /\ trigger_oneOf(runs[j].job.trigger)

\* the workflow.yaml that the pipeline source of every declared job holds
SourceWorkflow == Workflow("image:1", "compiled-today")

\* the same entry with other pipeline_parameters
WithParameters(spec, pipeline_parameters) ==
    [spec EXCEPT !.pipeline_parameters = pipeline_parameters]

\* what a fetch of a file of the git host meets: how the two requests of
\* download_github_file end, the text of the file, and for a workflow.yaml
\* whether it is a valid Argo Workflow and the inputs its pipeline_spec declares
\* (name -> optional)
FetchOutcomes == {"ok", "lookup_failed", "download_failed"}

GithubFile(fetch, valid, inputs) ==
    [fetch |-> fetch, text |-> "hello", valid |-> valid, inputs |-> inputs]

\* every file can be fetched; the workflows declare the one required input
GithubAllFine == [path \in Paths |-> GithubFile("ok", TRUE, [n \in {"message"} |-> FALSE])]

\* job.get("service_account", None) or args.kfp_default_runner_sa
job_service_account(job) ==
    IF job.service_account = None \/ job.service_account = ""
    THEN DefaultRunnerSA ELSE job.service_account

(***************************************************************************)
(* The platform.  A remote job (ApiJob) is named GIT::{job_name}__{ts};    *)
(* the name is a string, here the sequence of its characters.              *)
(***************************************************************************)
Digits == << "0", "1", "2", "3", "4", "5", "6", "7", "8", "9" >>

IsDigit(c) == c \in {"0", "1", "2", "3", "4", "5", "6", "7", "8", "9"}

\* ord() of the characters of a name
Ord(c) ==
    CASE c = "-" -> 45
      [] IsDigit(c) -> 47 + (CHOOSE d \in 1..10 : Digits[d] = c)
      [] c = ":" -> 58
      [] c = "A" -> 65
      [] c = "G" -> 71
      [] c = "I" -> 73
      [] c = "L" -> 76
      [] c = "M" -> 77
      [] c = "N" -> 78
      [] c = "T" -> 84
      [] c = "U" -> 85
      [] c = "Z" -> 90
      [] c = "_" -> 95
      [] c = "a" -> 97
      [] c = "b" -> 98

\* str < str: the order of the first differing character, a proper prefix first
StrLess(s, t) ==
    LET differing == {i \in 1..Min(Len(s), Len(t)) : s[i] # t[i]}
        first == CHOOSE i \in differing : \A j \in differing : i <= j
    IN  IF differing = {} THEN Len(s) < Len(t) ELSE Ord(s[first]) < Ord(t[first])

\* %02d and %04d of strftime
TwoDigits(n) == << Digits[((n \div 10) % 10) + 1], Digits[(n % 10) + 1] >>
FourDigits(n) == TwoDigits(n \div 100) \o TwoDigits(n % 100)

\* datetime.strftime("%Y-%m-%dT%H-%M-%SZ"): the microseconds are dropped
strftime(t) ==
    FourDigits(t.year) \o << "-" >> \o TwoDigits(t.month) \o << "-" >> \o TwoDigits(t.day)
    \o << "T" >> \o TwoDigits(t.hour) \o << "-" >> \o TwoDigits(t.minute)
    \o << "-" >> \o TwoDigits(t.second) \o << "Z" >>

\* datetime.now(timezone.utc) when the clock of the model shows `seconds`
Clock(seconds) ==
    [year |-> 2000, month |-> 1, day |-> 1, hour |-> 0,
     minute |-> seconds \div 60, second |-> seconds % 60, microsecond |-> 0]

\* f"GIT::{job_name}__{now_string}"
GitName(job_name, now_string) ==
    << "G", "I", "T", ":", ":" >> \o job_name \o << "_", "_" >> \o now_string

\* get_new_job_name when datetime.now is t
get_new_job_name_at(job_name, t) == GitName(job_name, strftime(t))

\* get_new_job_name at clock value t
get_new_job_name(job_name, t) == get_new_job_name_at(Spelling(job_name), Clock(t))

\* get_job_name of run_pipeline.py
get_job_name(job_name, t) ==
    << "M", "A", "N", "U", "A", "L", ":", ":" >> \o Spelling(job_name)
    \o << "_", "_" >> \o strftime(Clock(t))

\* [0-9]{4}-[0-9]{2}-[0-9]{2}T[0-9]{2}-[0-9]{2}-[0-9]{2}Z
IsTimestamp(s) ==
    /\ Len(s) = 20
    /\ s[20] = "Z"
    /\ s[11] = "T"
    /\ \A i \in {5, 8, 14, 17} : s[i] = "-"
    /\ \A i \in {1, 2, 3, 4, 6, 7, 9, 10, 12, 13, 15, 16, 18, 19} : IsDigit(s[i])

\* pattern.match(name) for ^GIT::(?P<job_name>.*)__(?P<timestamp>...)$: the
\* timestamp is the last 20 characters, the job name all between GIT:: and
\* the __ before it
pattern_match(name) ==
    LET n == Len(name) IN
    IF /\ n >= 27
       /\ name[1] = "G" /\ name[2] = "I" /\ name[3] = "T" /\ name[4] = ":" /\ name[5] = ":"
       /\ name[n - 21] = "_" /\ name[n - 20] = "_"
       /\ IsTimestamp(SubSeq(name, n - 19, n))
    THEN [matched |-> TRUE, job_name |-> SubSeq(name, 6, n - 22),
          timestamp |-> SubSeq(name, n - 19, n)]
    ELSE [matched |-> FALSE, job_name |-> << >>, timestamp |-> << >>]

\* the key of the sort of lines 657-660
timestamp_key(api_job) == pattern_match(api_job.name).timestamp

\* what the platform stores for create_recurring_run(...), and returns
\* the date-time strings of a config: one moment in two notations of RFC 3339,
\* and a later moment
DateStrings ==
    {"2030-01-01T00:00:00+00:00", "2030-01-01T00:00:00Z", "2031-01-01T00:00:00+00:00"}

\* the datetime the API client returns for a start_time or end_time the job
\* was created with: the moment, here its year; NoneId without a date
datetime_of(date_string) ==
    CASE date_string = None -> NoneId
      [] date_string \in {"2030-01-01T00:00:00+00:00", "2030-01-01T00:00:00Z"} -> 2030
      [] date_string = "2031-01-01T00:00:00+00:00" -> 2031

\* datetime.isoformat() of such a moment
isoformat(moment) ==
    IF moment = 2030 THEN "2030-01-01T00:00:00+00:00" ELSE "2031-01-01T00:00:00+00:00"

CreatedJob(id, enabled, experiment_id, job_name, description, start_time, end_time, interval_second, cron_expression, max_concurrency, no_catchup, params, workflow, service_account) ==
    [id |-> id,
     name |-> job_name,
     enabled |-> enabled,
     description |-> description,
     experiment_id |-> experiment_id,
     max_concurrency |-> max_concurrency,
     service_account |-> service_account,
     \* empty-string parameter values become None in the API
     parameters |-> [n \in DOMAIN params |-> IF params[n] = "" THEN None ELSE params[n]],
     no_catchup |-> no_catchup,
     cron_schedule |->
        IF cron_expression # None
        THEN << [cron |-> cron_expression, start_time |-> datetime_of(start_time),
                 end_time |-> datetime_of(end_time)] >>
        ELSE << >>,
     periodic_schedule |->
        IF interval_second # NoneId
        THEN << [interval_second |-> interval_second, start_time |-> datetime_of(start_time),
                 end_time |-> datetime_of(end_time)] >>
        ELSE << >>,
     workflow_manifest |-> workflow]

\* compare_api_job: TRUE iff the remote job equals the resolved job in every
\* compared field
compare_api_job(api_job, workflow_yaml, job_description, job_experiment_id, job_max_concurrency, job_sa, job_parameters, job_trigger_catchup, job_trigger_start_date, job_trigger_end_date, job_trigger_cron, job_trigger_interval_seconds) ==
    LET api_parameters ==
            [n \in DOMAIN api_job.parameters |->
                IF api_job.parameters[n] = None THEN "" ELSE api_job.parameters[n]]
        api_trigger_catchup == ~api_job.no_catchup
        periodic == api_job.periodic_schedule
        cron == api_job.cron_schedule
        api_trigger_interval_seconds ==
            IF periodic # << >> /\ periodic[1].interval_second # NoneId
            THEN periodic[1].interval_second ELSE NoneId
        api_trigger_cron ==
            IF periodic = << >> /\ cron # << >> THEN cron[1].cron ELSE None
        start_time ==
            IF periodic # << >> THEN periodic[1].start_time
            ELSE IF cron # << >> THEN cron[1].start_time ELSE NoneId
        end_time ==
            IF periodic # << >> THEN periodic[1].end_time
            ELSE IF cron # << >> THEN cron[1].end_time ELSE NoneId
        \* lines 733-736: cast to strings
        api_trigger_start_date == IF start_time # NoneId THEN isoformat(start_time) ELSE None
        api_trigger_end_date == IF end_time # NoneId THEN isoformat(end_time) ELSE None
        found_change ==
            \/ api_job.description # job_description
            \/ api_job.experiment_id # job_experiment_id
            \/ api_job.max_concurrency # job_max_concurrency
            \/ api_job.service_account # job_sa
            \/ api_parameters # job_parameters
            \/ api_trigger_catchup # job_trigger_catchup
            \/ api_trigger_start_date # job_trigger_start_date
            \/ api_trigger_end_date # job_trigger_end_date
            \/ api_trigger_cron # job_trigger_cron
            \/ api_trigger_interval_seconds # job_trigger_interval_seconds
            \/ ~compare_workflows(api_job.workflow_manifest, workflow_yaml)
    IN  ~found_change

\* the jobs of a set, newest creation first (sort_by="created_at desc"; the
\* platform hands out ids in creation order)
RECURSIVE CreatedAtDesc(_)
CreatedAtDesc(jobs) ==
    IF jobs = {} THEN << >>
    ELSE LET newest == CHOOSE j \in jobs : \A o \in jobs : o.id <= j.id
         IN  << newest >> \o CreatedAtDesc(jobs \ {newest})

\* one page of list_jobs: the jobs at offsets page_tok+1 .. page_tok+PageSize
ListJobsPage(jobs, page_tok) ==
    LET all == CreatedAtDesc(jobs)
    IN  SubSeq(all, page_tok + 1, Min(Len(all), page_tok + PageSize))

\* mutant: the platform's next_page_token is not followed
NextPageToken_None(jobs, page_tok) == 0

\* the next_page_token of that page, 0 for none
NextPageToken(jobs, page_tok) ==
    IF page_tok + PageSize < Cardinality(jobs) THEN page_tok + PageSize ELSE 0

\* mutant: a name that begins with GIT::{job_name}__ is taken as a version
MatchesJobName_Prefix(api_job, job_name) ==
    LET prefix == << "G", "I", "T", ":", ":" >> \o Spelling(job_name) \o << "_", "_" >>
    IN  Len(api_job.name) >= Len(prefix) /\ SubSeq(api_job.name, 1, Len(prefix)) = prefix

\* pattern.match(job.name) and match.group("job_name") == job_name
MatchesJobName(api_job, job_name) ==
    LET match == pattern_match(api_job.name)
    IN  match.matched /\ match.job_name = Spelling(job_name)

\* the jobs of a page that are versions of job_name, in page order
RECURSIVE FilterPage(_, _)
FilterPage(page, job_name) ==
    IF page = << >> THEN << >>
    ELSE (IF MatchesJobName(Head(page), job_name) THEN << Head(page) >> ELSE << >>)
         \o FilterPage(Tail(page), job_name)

\* recurring_runs.sort(key=timestamp, reverse=True): a stable sort, equal
\* timestamps keep their listing order
RECURSIVE InsertByTimestamp(_, _)
InsertByTimestamp(sorted, j) ==
    IF sorted = << >> THEN << j >>
    ELSE IF ~StrLess(timestamp_key(Head(sorted)), timestamp_key(j))
         THEN << Head(sorted) >> \o InsertByTimestamp(Tail(sorted), j)
         ELSE << j >> \o sorted

RECURSIVE SortNewestFirst(_)
SortNewestFirst(runs) ==
    IF runs = << >> THEN << >>
    ELSE InsertByTimestamp(SortNewestFirst(SubSeq(runs, 1, Len(runs) - 1)),
                           runs[Len(runs)])

(***************************************************************************)
(* Initial states: a configuration that passed schema validation, and a    *)
(* remote state that earlier runs and operators can have left.             *)
(***************************************************************************)
\* the id of the remote experiment of a name that exists before the first run
OldExperimentId(name) == IF name = "e1" THEN 91 ELSE IF name = "e2" THEN 92 ELSE 93

ExperimentStates == {"absent", "active", "archived"}

RemoteExperiment(name, state) ==
    [exists |-> state # "absent",
     archived |-> state = "archived",
     id |-> IF state = "absent" THEN NoneId ELSE OldExperimentId(name),
     description |-> None]

\* the ways the latest remote version can differ from the declared job
DriftKinds == {"none", "description", "parameters", "workflow"}

\* a version of a declared job as an earlier run created it, then drifted
RemoteVersion(id, spec, timestamp, enabled, drift) ==
    LET job == spec.job
        made == CreatedJob(id, enabled, OldExperimentId(job.experiment),
                           get_new_job_name(job.name, timestamp), job.description,
                           job.trigger.start_date, job.trigger.end_date,
                           job.trigger.interval_seconds, job.trigger.cron,
                           job.max_concurrency, ~job.trigger.catchup,
                           [n \in {"message"} |-> ""],
                           Workflow("image:1", "compiled-earlier"),
                           job_service_account(job))
    IN  CASE drift = "none" -> made
          [] drift = "description" -> [made EXCEPT !.description = "weekly"]
          [] drift = "parameters" -> [made EXCEPT !.parameters = [n \in {"message"} |-> "hello"]]
          [] drift = "workflow" ->
                [made EXCEPT !.workflow_manifest = Workflow("image:0", "compiled-earlier")]

\* a run started by hand with run_pipeline.py, never a version of a declared job
ManualJob(id, job_name, timestamp) ==
    [RemoteVersion(id, RecurringRunSpec(job_name, "e1", TRUE, -1), timestamp, TRUE, "none")
        EXCEPT !.name = get_job_name(job_name, timestamp)]

\* one declared job, up to MaxVersions remote versions of it and a manual job
InitOneJob ==
    /\ dry_run = FALSE
    /\ github = GithubAllFine
    /\ experiments = << [name |-> "e1", description |-> ""] >>
    /\ remote_experiments =
          [n \in ExperimentNames |-> RemoteExperiment(n, IF n = "e1" THEN "active" ELSE "absent")]
    /\ \E enabled \in BOOLEAN, keep_history \in -1..MaxKeep, n \in 0..MaxVersions :
       \E flags \in [1..n -> BOOLEAN], drift \in DriftKinds :
          LET spec == RecurringRunSpec("a", "e1", enabled, keep_history) IN
          /\ n = 0 => drift = "none"
          /\ recurring_runs = << spec >>
          /\ remote_jobs =
                {ManualJob(1, "a", 1)} \cup
                {RemoteVersion(i + 1, spec, i, flags[i], IF i = n THEN drift ELSE "description")
                    : i \in 1..n}
          /\ next_id = n + 2
          /\ now = n

\* up to MaxJobs declared jobs, enabled and with keep_history 1, each in the
\* first or the second experiment, and at most one remote version of each job name
InitManyJobs ==
    /\ dry_run \in BOOLEAN
    /\ github = GithubAllFine
    /\ \E n \in 1..MaxExperiments, state \in ExperimentStates :
          /\ experiments = [i \in 1..n |-> [name |-> ExperimentName(i), description |-> ""]]
          /\ remote_experiments =
                [e \in ExperimentNames |->
                    RemoteExperiment(e, IF \E i \in 1..n : e = ExperimentName(i)
                                        THEN state ELSE "absent")]
    /\ \E n \in 1..MaxJobs :
       \E choice \in [1..n -> JobNames \X {"e1", "e2"}] :
          recurring_runs = [j \in 1..n |-> RecurringRunSpec(choice[j][1], choice[j][2], TRUE, 1)]
    /\ \E remote \in {"none", "current", "stale"} :
          remote_jobs =
             IF remote = "none" THEN {}
             ELSE {RemoteVersion(1, RecurringRunSpec("a", "e1", TRUE, 1), 1, TRUE,
                                 IF remote = "current" THEN "none" ELSE "description"),
                   RemoteVersion(2, RecurringRunSpec("a__b", "e1", TRUE, 1), 1, TRUE,
                                 IF remote = "current" THEN "none" ELSE "description")}
    /\ next_id = 3
    /\ now = 1

\* one declared job whose trigger declares cron, interval_seconds, both or
\* neither, and no remote version or the one version an earlier run created;
\* the declared experiment exists with no description, as declared or not
TriggerKinds == {"cron", "interval_seconds", "both", "neither"}

InitTriggers ==
    /\ dry_run \in BOOLEAN
    /\ github = GithubAllFine
    /\ \E description \in {"", "team"} :
          experiments = << [name |-> "e1", description |-> description] >>
    /\ remote_experiments =
          [n \in ExperimentNames |-> RemoteExperiment(n, IF n = "e1" THEN "active" ELSE "absent")]
    /\ \E kind \in TriggerKinds, n \in 0..1 :
          LET spec == WithTrigger(RecurringRunSpec("a", "e1", TRUE, 1),
                                  IF kind \in {"cron", "both"} THEN "0 0 * * * *" ELSE None,
                                  IF kind \in {"interval_seconds", "both"} THEN 60 ELSE NoneId)
          IN  /\ recurring_runs = << spec >>
              /\ remote_jobs = {RemoteVersion(i, spec, i, TRUE, "none") : i \in 1..n}
              /\ next_id = n + 1
              /\ now = n

\* one declared job with up to MaxParameters pipeline_parameters, each a value
\* or a valueFrom, whose pipeline declares any inputs, required or optional
ParameterNames == {"message", "count"}

ParameterEntries ==
    {[name |-> n, value |-> "hello", valueFrom |-> None] : n \in ParameterNames} \cup
    {[name |-> n, value |-> None, valueFrom |-> ParameterPath] : n \in ParameterNames}

ParameterLists == UNION {[1..n -> ParameterEntries] : n \in 0..MaxParameters}

InputSets == UNION {[names -> BOOLEAN] : names \in SUBSET ParameterNames}

InitParameters ==
    /\ dry_run \in BOOLEAN
    /\ experiments = << [name |-> "e1", description |-> ""] >>
    /\ remote_experiments =
          [n \in ExperimentNames |-> RemoteExperiment(n, IF n = "e1" THEN "archived" ELSE "absent")]
    /\ \E pipeline_parameters \in ParameterLists :
          recurring_runs =
             << WithParameters(RecurringRunSpec("a", "e1", TRUE, 1), pipeline_parameters) >>
    /\ \E inputs \in InputSets :
          github = [GithubAllFine EXCEPT ![PipelinePath("a")] = GithubFile("ok", TRUE, inputs)]
    /\ remote_jobs = {}
    /\ next_id = 1
    /\ now = 0

\* two declared jobs, the first with a parameter read from a file, and a git
\* host where at most one file cannot be fetched or is not a valid workflow
InitSources ==
    /\ dry_run \in BOOLEAN
    /\ experiments = << [name |-> "e1", description |-> ""] >>
    /\ remote_experiments =
          [n \in ExperimentNames |-> RemoteExperiment(n, IF n = "e1" THEN "active" ELSE "absent")]
    /\ recurring_runs =
          << WithParameters(RecurringRunSpec("a", "e1", TRUE, 1),
                            << [name |-> "message", value |-> None,
                                valueFrom |-> ParameterPath] >>),
             RecurringRunSpec("a__b", "e1", TRUE, 1) >>
    /\ \/ github = GithubAllFine
       \/ \E path \in Paths, fetch \in FetchOutcomes \ {"ok"} :
             github = [GithubAllFine EXCEPT ![path].fetch = fetch]
       \/ \E path \in {PipelinePath("a"), PipelinePath("a__b")} :
             github = [GithubAllFine EXCEPT ![path].valid = FALSE]
    /\ remote_jobs = {}
    /\ next_id = 1
    /\ now = 0

\* the file cache and the fetches of download_github_file, before any fetch
Hashes == 1..MaxCommits
Fetchers == 1..MaxFetchers

NoFile == [exists |-> FALSE, bytes |-> << >>]

IdleFetcher ==
    [pc |-> "idle", commit_hash |-> 0, present |-> FALSE, found |-> FALSE,
     requested |-> FALSE, written |-> 0, result |-> "none", read |-> << >>]

FetchIdle ==
    /\ head = 1
    /\ cache = [commit_hash \in Hashes |-> NoFile]
    /\ fetchers = [f \in Fetchers |-> IdleFetcher]
    /\ fetch_count = 0

\* no comparison of documents is under way
CompareIdle ==
    /\ doc_1 = NoneDoc
    /\ doc_2 = NoneDoc
    /\ ignored = {}
    /\ tolerance = FLOAT_TOL
    /\ compared = << >>

\* no function is called on its own
CallIdle ==
    /\ call_args = << >>
    /\ call_result = << >>

InitProgram ==
    InitOneJob \/ InitManyJobs \/ InitTriggers \/ InitParameters \/ InitSources

Init ==
    /\ InitProgram
    /\ FetchIdle
    /\ CompareIdle
    /\ CallIdle
    /\ pc = "start"
    /\ status = "running"
    /\ run = 1
    /\ exp_i = 1
    /\ job_i = 1
    /\ experiment_api = << >>
    /\ experiment_names_to_id = << >>
    /\ found_job_names = {}
    /\ resolved = << >>
    /\ page_token = 0
    /\ listed = << >>
    /\ existing_scheduled_runs = << >>
    /\ latest_scheduled_run = << >>
    /\ latest_is_up_to_date = FALSE
    /\ new_scheduled_run = << >>
    /\ loop_k = 0
    /\ faults = 0
    /\ calls = << >>
    /\ previous = << >>

(***************************************************************************)
(* Platform calls and their log.                                           *)
(***************************************************************************)
MutatingOps == {"create_experiment", "unarchive_experiment", "create_recurring_run",
                "enable_job", "disable_job", "delete_job"}
JobLevelOps == {"list_jobs", "create_recurring_run", "enable_job", "disable_job",
                "delete_job"}

\* the positions of main() that are a platform call, and the call made there
StartupPositions == {"probe", "list_experiments"}
ExperimentPositions == {"get_experiment", "create_experiment", "unarchive_experiment"}
PassPositions == {"list_jobs", "disable_other", "enable_latest", "disable_latest",
                  "create_recurring_run", "disable_previous", "enable_new", "delete_job"}

OpAt(position) ==
    CASE position \in {"disable_other", "disable_latest", "disable_previous"} -> "disable_job"
      [] position \in {"enable_latest", "enable_new"} -> "enable_job"
      [] OTHER -> position

\* the id (or, for a lookup or create by name, the loop index) the call is about
TargetAt(position) ==
    CASE position \in StartupPositions -> 0
      [] position \in {"get_experiment", "create_experiment"} -> exp_i
      [] position = "unarchive_experiment" -> experiment_api[1].id
      [] position \in {"download_github_file", "list_jobs", "create_recurring_run"} -> job_i
      [] position \in {"disable_other", "delete_job"} -> existing_scheduled_runs[loop_k].id
      [] position \in {"enable_latest", "disable_latest", "disable_previous"} ->
            latest_scheduled_run[1].id
      [] position = "enable_new" -> new_scheduled_run[1].id

Call(position, ok) ==
    [op |-> OpAt(position), at |-> position, target |-> TargetAt(position),
     job |-> IF position \in PassPositions THEN job_i ELSE 0, ok |-> ok]

Log(position) == calls' = Append(calls, Call(position, TRUE))

Running(position) == status = "running" /\ pc = position

\* the platform's enable_job / disable_job / delete_job
SetEnabled(jobs, id, flag) ==
    {IF j.id = id THEN [j EXCEPT !.enabled = flag] ELSE j : j \in jobs}
DeleteJob(jobs, id) == {j \in jobs : j.id # id}

(***************************************************************************)
(* Control flow between two calls.                                         *)
(***************************************************************************)
Goto(position, k) ==
    /\ pc' = position
    /\ loop_k' = k
    /\ page_token' = 0
    /\ listed' = << >>

\* the end of main()
Finish == Goto("done", 0) /\ status' = "done" /\ UNCHANGED job_i

\* the next iteration of the reconcile loop (lines 1236-1280), or the end
NextJob ==
    IF job_i < Len(recurring_runs)
    THEN Goto("list_jobs", 0) /\ job_i' = job_i + 1 /\ UNCHANGED status
    ELSE Finish

\* mutant: keep_history = -1 is pruned like any other value
KeepsAll_Never(keep_history) == FALSE

\* line 1393: keep_history = -1 keeps every version
KeepsAll(keep_history) == keep_history = -1

\* line 1399: the index (from 1) of the first element of the slice
\* existing_scheduled_runs[keep_history:]
FirstPruned(existing, keep_history) ==
    IF keep_history >= 0
    THEN Min(keep_history, Len(existing)) + 1
    ELSE (IF Len(existing) + keep_history > 0 THEN Len(existing) + keep_history ELSE 0) + 1

\* lines 1392-1403: the first delete of existing[keep_history:], if any
GotoPrune(existing) ==
    LET keep_history == recurring_runs[job_i].keep_history
        first == FirstPruned(existing, keep_history)
    IN  IF ~KeepsAll(keep_history) /\ first <= Len(existing)
        THEN Goto("delete_job", first) /\ UNCHANGED << job_i, status >>
        ELSE NextJob

\* mutant: the new version is never enabled
GotoEnableNew_Never(existing) == GotoPrune(existing)

\* lines 1384-1390
GotoEnableNew(existing) ==
    IF recurring_runs[job_i].job.enabled
    THEN Goto("enable_new", 0) /\ UNCHANGED << job_i, status >>
    ELSE GotoPrune(existing)

\* mutant: the previous latest is left as it is
GotoDisablePrevious_Never(existing) == GotoEnableNew(existing)

\* lines 1377-1382: the previous latest is disabled if there was one
GotoDisablePrevious(existing) ==
    IF latest_scheduled_run # << >>
    THEN Goto("disable_previous", 0) /\ UNCHANGED << job_i, status >>
    ELSE GotoEnableNew(existing)

\* mutant: a pass that finds the latest as declared does not prune
GotoLatest_NoPrune(existing, latest, up_to_date) ==
    LET job_enabled == recurring_runs[job_i].job.enabled IN
    IF up_to_date
    THEN IF job_enabled /\ ~latest[1].enabled
         THEN Goto("enable_latest", 0) /\ UNCHANGED << job_i, status >>
         ELSE IF ~job_enabled /\ latest[1].enabled
         THEN Goto("disable_latest", 0) /\ UNCHANGED << job_i, status >>
         ELSE NextJob
    ELSE Goto("create_recurring_run", 0) /\ UNCHANGED << job_i, status >>

\* mutant: an up-to-date latest is enabled again although it is enabled
GotoLatest_EnableAgain(existing, latest, up_to_date) ==
    IF up_to_date
    THEN IF recurring_runs[job_i].job.enabled
         THEN Goto("enable_latest", 0) /\ UNCHANGED << job_i, status >>
         ELSE GotoPrune(existing)
    ELSE Goto("create_recurring_run", 0) /\ UNCHANGED << job_i, status >>

\* lines 1318-1351
GotoLatest(existing, latest, up_to_date) ==
    LET job_enabled == recurring_runs[job_i].job.enabled IN
    IF up_to_date
    THEN IF job_enabled /\ ~latest[1].enabled
         THEN Goto("enable_latest", 0) /\ UNCHANGED << job_i, status >>
         ELSE IF ~job_enabled /\ latest[1].enabled
         THEN Goto("disable_latest", 0) /\ UNCHANGED << job_i, status >>
         ELSE GotoPrune(existing)
    ELSE Goto("create_recurring_run", 0) /\ UNCHANGED << job_i, status >>

\* mutant: the non-latest versions are left as they are
GotoDisableOthers_Never(existing, latest, up_to_date, from) ==
    GotoLatest(existing, latest, up_to_date)

\* mutant: every non-latest version is disabled, enabled or not
GotoDisableOthers_All(existing, latest, up_to_date, from) ==
    IF from <= Len(existing)
    THEN Goto("disable_other", from) /\ UNCHANGED << job_i, status >>
    ELSE GotoLatest(existing, latest, up_to_date)

\* lines 1306-1316: the next of existing[1:] that the listing reports enabled
GotoDisableOthers(existing, latest, up_to_date, from) ==
    LET enabled_others == {k \in from..Len(existing) : existing[k].enabled} IN
    IF enabled_others # {}
    THEN Goto("disable_other", CHOOSE k \in enabled_others : \A o \in enabled_others : k <= o)
         /\ UNCHANGED << job_i, status >>
    ELSE GotoLatest(existing, latest, up_to_date)

\* mutant: the iterations of the reconcile loop are not skipped with --dry-run
GotoReconcile_NoSkip ==
    IF Len(recurring_runs) = 0
    THEN Finish
    ELSE Goto("list_jobs", 0) /\ job_i' = 1 /\ UNCHANGED status

\* the start of the reconcile loop (line 1235); with --dry-run every iteration
\* is skipped (lines 1270-1275)
GotoReconcile ==
    IF dry_run \/ Len(recurring_runs) = 0
    THEN Finish
    ELSE Goto("list_jobs", 0) /\ job_i' = 1 /\ UNCHANGED status

\* the start of the validation loop (line 1074)
GotoValidate ==
    IF Len(recurring_runs) = 0
    THEN Finish
    ELSE Goto("validate", 0) /\ job_i' = 1 /\ UNCHANGED status

\* the next iteration of the experiment loop (line 1022), or the validation loop
NextExperiment ==
    IF exp_i < Len(experiments)
    THEN Goto("get_experiment", 0) /\ exp_i' = exp_i + 1 /\ UNCHANGED << job_i, status >>
    ELSE GotoValidate /\ UNCHANGED exp_i

(***************************************************************************)
(* main(): arguments, probe, schemas, client creation (lines 904-1019).    *)
(***************************************************************************)
\* the start of the experiment loop (line 1022) of a run that is not a dry run
GotoExperiments ==
    IF Len(experiments) = 0
    THEN GotoValidate /\ UNCHANGED exp_i
    ELSE Goto("get_experiment", 0) /\ exp_i' = 1 /\ UNCHANGED << job_i, status >>

\* lines 953-1019: the configuration is read and validated against the
\* schemas; then the client is created, or with --dry-run the experiment loop
\* maps every experiment to None without a call (lines 1037-1043)
GotoReadConfig ==
    IF ~recurring_runs_is_valid(recurring_runs)
    THEN /\ status' = "invalid_config"
         /\ UNCHANGED << pc, loop_k, page_token, listed, exp_i, job_i,
                         experiment_names_to_id >>
    ELSE IF dry_run
    THEN /\ experiment_names_to_id' =
               [n \in {experiments[i].name : i \in 1..Len(experiments)} |-> NoneId]
         /\ GotoValidate
         /\ UNCHANGED exp_i
    ELSE /\ experiment_names_to_id' = << >>
         /\ Goto("list_experiments", 0)
         /\ UNCHANGED << exp_i, job_i, status >>

\* lines 904-951: the arguments; the --api-url is probed unless --dry-run
Start ==
    /\ Running("start")
    /\ IF dry_run
       THEN GotoReadConfig
       ELSE /\ Goto("probe", 0)
            /\ UNCHANGED << exp_i, job_i, status, experiment_names_to_id >>
    /\ UNCHANGED << fetch_vars, compare_vars, call_vars >>
    /\ UNCHANGED << config_vars, remote_experiments, remote_jobs, next_id, now, run,
                    experiment_api, found_job_names, resolved, local_vars, faults,
                    calls, previous >>

\* lines 942-951: api_session.get(args.api_url) answers with status 200
ProbeApiUrl ==
    /\ Running("probe")
    /\ Log("probe")
    /\ GotoReadConfig
    /\ UNCHANGED << fetch_vars, compare_vars, call_vars >>
    /\ UNCHANGED << config_vars, remote_experiments, remote_jobs, next_id, now, run,
                    experiment_api, found_job_names, resolved, local_vars, faults,
                    previous >>

\* lines 999-1016: the client is created and tested with list_experiments
ListExperiments ==
    /\ Running("list_experiments")
    /\ Log("list_experiments")
    /\ GotoExperiments
    /\ UNCHANGED << fetch_vars, compare_vars, call_vars >>
    /\ UNCHANGED << config_vars, remote_experiments, remote_jobs, next_id, now, run,
                    experiment_vars, found_job_names, resolved, local_vars, faults,
                    previous >>

(***************************************************************************)
(* main(): reconcile experiments (lines 1021-1072).                        *)
(***************************************************************************)
ApiExperiment(remote) == << [id |-> remote.id, description |-> remote.description] >>

\* mutant: an experiment found with another description is created again
GetExperimentFound_Recreated ==
    /\ Running("get_experiment")
    /\ remote_experiments[experiments[exp_i].name].exists
    /\ experiment_api' = ApiExperiment(remote_experiments[experiments[exp_i].name])
    /\ Log("get_experiment")
    /\ IF experiment_api'[1].description = experiments[exp_i].description
       THEN Goto("unarchive_experiment", 0)
       ELSE Goto("create_experiment", 0)
    /\ UNCHANGED << fetch_vars, compare_vars, call_vars >>
    /\ UNCHANGED << config_vars, remote_experiments, remote_jobs, next_id, now, run, exp_i,
                    job_i, experiment_names_to_id, found_job_names, resolved, local_vars,
                    status, faults, previous >>

\* kfp_client.get_experiment finds the experiment
GetExperimentFound ==
    /\ Running("get_experiment")
    /\ remote_experiments[experiments[exp_i].name].exists
    /\ experiment_api' = ApiExperiment(remote_experiments[experiments[exp_i].name])
    /\ Log("get_experiment")
    /\ Goto("unarchive_experiment", 0)
    /\ UNCHANGED << fetch_vars, compare_vars, call_vars >>
    /\ UNCHANGED << config_vars, remote_experiments, remote_jobs, next_id, now, run, exp_i,
                    job_i, experiment_names_to_id, found_job_names, resolved, local_vars,
                    status, faults, previous >>

\* kfp_client.get_experiment raises "No experiment is found with name"
GetExperimentNotFound ==
    /\ Running("get_experiment")
    /\ ~remote_experiments[experiments[exp_i].name].exists
    /\ Log("get_experiment")
    /\ Goto("create_experiment", 0)
    /\ UNCHANGED << fetch_vars, compare_vars, call_vars >>
    /\ UNCHANGED << config_vars, remote_experiments, remote_jobs, next_id, now, run, exp_i,
                    job_i, experiment_vars, found_job_names, resolved, local_vars,
                    status, faults, previous >>

CreateExperiment ==
    /\ Running("create_experiment")
    /\ LET spec == experiments[exp_i]
           created == [exists |-> TRUE, archived |-> FALSE, id |-> next_id,
                       description |-> IF spec.description = "" THEN None
                                       ELSE spec.description]
       IN  /\ remote_experiments' = [remote_experiments EXCEPT ![spec.name] = created]
           /\ experiment_api' = ApiExperiment(created)
    /\ next_id' = next_id + 1
    /\ Log("create_experiment")
    /\ Goto("unarchive_experiment", 0)
    /\ UNCHANGED << fetch_vars, compare_vars, call_vars >>
    /\ UNCHANGED << config_vars, remote_jobs, now, run, exp_i, job_i,
                    experiment_names_to_id, found_job_names, resolved, local_vars,
                    status, faults, previous >>

\* mutant: the experiment is left archived
UnarchiveExperiment_Skipped ==
    /\ Running("unarchive_experiment")
    /\ experiment_names_to_id' =
          [n \in DOMAIN experiment_names_to_id \cup {experiments[exp_i].name} |->
              IF n = experiments[exp_i].name THEN experiment_api[1].id
              ELSE experiment_names_to_id[n]]
    /\ Log("unarchive_experiment")
    /\ NextExperiment
    /\ UNCHANGED << fetch_vars, compare_vars, call_vars >>
    /\ UNCHANGED << config_vars, remote_experiments, remote_jobs, next_id, now, run,
                    experiment_api, found_job_names, resolved, local_vars, faults, previous >>

UnarchiveExperiment ==
    /\ Running("unarchive_experiment")
    /\ remote_experiments' =
          [n \in DOMAIN remote_experiments |->
              IF remote_experiments[n].exists /\ remote_experiments[n].id = experiment_api[1].id
              THEN [remote_experiments[n] EXCEPT !.archived = FALSE]
              ELSE remote_experiments[n]]
    /\ experiment_names_to_id' =
          [n \in DOMAIN experiment_names_to_id \cup {experiments[exp_i].name} |->
              IF n = experiments[exp_i].name THEN experiment_api[1].id
              ELSE experiment_names_to_id[n]]
    /\ Log("unarchive_experiment")
    /\ NextExperiment
    /\ UNCHANGED << fetch_vars, compare_vars, call_vars >>
    /\ UNCHANGED << config_vars, remote_jobs, next_id, now, run, experiment_api,
                    found_job_names, resolved, local_vars, faults, previous >>

(***************************************************************************)
(* main(): validate all recurring runs (lines 1074-1233).  What the remote *)
(* files hold is the environment's choice.                                 *)
(***************************************************************************)
\* why an iteration of the validation loop raises ValueError
Rejected == {"duplicate_name", "unknown_experiment", "fetch", "not_yaml", "manifest",
             "parameter_name", "parameter_source", "missing_parameters",
             "extra_parameters"}

\* the checks of one iteration that depend on the configuration alone
DuplicateName(j) == recurring_runs[j].job.name \in found_job_names
UnknownExperiment(j) == recurring_runs[j].job.experiment \notin DOMAIN experiment_names_to_id

\* mutant: a failed request is not reported
download_github_file_Always(file_path) == file_path

\* download_github_file: the local path of the file, None when the commit
\* lookup or the download does not answer 200
download_github_file(file_path) ==
    IF github[file_path].fetch = "ok" THEN file_path ELSE None

\* read_file of a path that download_github_file returned
read_file(path) == github[path].text

\* validate_workflow_yaml: (workflow_is_valid, {param_name: is_optional})
validate_workflow_yaml(path) == << github[path].valid, github[path].inputs >>

\* pipeline_package_path.endswith(".yaml")
EndsWithYaml(path) == path \in {PipelinePath("a"), PipelinePath("a__b")}

\* the loop that unpacks pipeline_parameters (lines 1147-1203) from its i-th
\* entry on: the map built, the files fetched, and the error that ended it
RECURSIVE UnpackParameters(_, _, _, _)
UnpackParameters(pipeline_parameters, i, map, fetched) ==
    IF i > Len(pipeline_parameters)
    THEN [error |-> None, map |-> map, fetched |-> fetched]
    ELSE LET param_name == pipeline_parameters[i].name
             param_value == pipeline_parameters[i].value
             param_value_from == pipeline_parameters[i].valueFrom
             With(v) == [n \in DOMAIN map \cup {param_name} |->
                            IF n = param_name THEN v ELSE map[n]]
         IN  IF param_name \in DOMAIN map
             THEN [error |-> "parameter_name", map |-> map, fetched |-> fetched]
             ELSE IF param_value # None
             THEN UnpackParameters(pipeline_parameters, i + 1, With(param_value), fetched)
             ELSE IF param_value_from # None
             THEN IF download_github_file(param_value_from) = None
                  THEN [error |-> "fetch", map |-> map,
                        fetched |-> Append(fetched, param_value_from)]
                  ELSE UnpackParameters(pipeline_parameters, i + 1,
                                        With(read_file(download_github_file(param_value_from))),
                                        Append(fetched, param_value_from))
             ELSE [error |-> "parameter_source", map |-> map, fetched |-> fetched]

\* mutant: an optional input that is not given counts as missing
ParametersError_NoOptional(names, workflow_yaml_parameters) ==
    IF (DOMAIN workflow_yaml_parameters) \ names # {} THEN "missing_parameters"
    ELSE IF names \ DOMAIN workflow_yaml_parameters # {} THEN "extra_parameters"
    ELSE None

\* the comparison of the given names with the declared inputs (lines 1205-1233)
ParametersError(names, workflow_yaml_parameters) ==
    LET declared == DOMAIN workflow_yaml_parameters
        missing_parameters == declared \ names
        missing_parameters_filtered ==
            {n \in missing_parameters : ~workflow_yaml_parameters[n]}
        extra_parameters == names \ declared
    IN  IF names # declared
        THEN IF missing_parameters_filtered # {} THEN "missing_parameters"
             ELSE IF extra_parameters # {} THEN "extra_parameters"
             ELSE None
        ELSE None

\* one iteration of the validation loop for the j-th recurring run, in the
\* order of the code: the error that ends it (None when it passes), the files
\* it asked download_github_file for, and the parameter map it built
ValidationOf(j) ==
    LET spec == recurring_runs[j]
        file_path == spec.pipeline_source.file_path
        pipeline_package_path == download_github_file(file_path)
        unpacked == UnpackParameters(spec.pipeline_parameters, 1, << >>, << file_path >>)
        Ends(error, fetched) == [error |-> error, map |-> << >>, fetched |-> fetched]
    IN  IF DuplicateName(j) THEN Ends("duplicate_name", << >>)
        ELSE IF UnknownExperiment(j) THEN Ends("unknown_experiment", << >>)
        ELSE IF pipeline_package_path = None THEN Ends("fetch", << file_path >>)
        ELSE IF ~EndsWithYaml(pipeline_package_path) THEN Ends("not_yaml", << file_path >>)
        ELSE IF ~validate_workflow_yaml(pipeline_package_path)[1]
             THEN Ends("manifest", << file_path >>)
        ELSE IF unpacked.error # None THEN unpacked
        ELSE [unpacked EXCEPT !.error =
                ParametersError(DOMAIN unpacked.map,
                                validate_workflow_yaml(pipeline_package_path)[2])]

\* the download_github_file calls of one iteration, in the call log
LogFetches(fetched) ==
    calls' = calls \o [k \in 1..Len(fetched) |-> Call("download_github_file", TRUE)]

\* mutant: the reconcile loop entered after the first validated job
LastRecurringRun_First(j) == j >= 1

\* the validation loop (line 1076) ends after the last declared recurring run
LastRecurringRun(j) == j >= Len(recurring_runs)

ValidateRecurringRun ==
    /\ Running("validate")
    /\ ValidationOf(job_i).error = None
    /\ found_job_names' = found_job_names \cup {recurring_runs[job_i].job.name}
    /\ resolved' = Append(resolved,
                          [_workflow_yaml |-> SourceWorkflow,
                           _pipeline_parameters_map |-> ValidationOf(job_i).map])
    /\ LogFetches(ValidationOf(job_i).fetched)
    /\ IF LastRecurringRun(job_i)
       THEN GotoReconcile
       ELSE /\ job_i' = job_i + 1
            /\ UNCHANGED << pc, loop_k, page_token, listed, status >>
    /\ UNCHANGED << fetch_vars, compare_vars, call_vars >>
    /\ UNCHANGED << config_vars, remote_experiments, remote_jobs, next_id, now, run, exp_i,
                    experiment_vars, local_vars, faults, previous >>

\* a ValueError of the validation loop: the name is declared twice, the
\* experiment is not declared, a file cannot be fetched or is not a valid
\* workflow, or the parameters do not fit the inputs of the pipeline
RejectRecurringRun ==
    /\ Running("validate")
    /\ ValidationOf(job_i).error # None
    /\ status' = ValidationOf(job_i).error
    /\ LogFetches(ValidationOf(job_i).fetched)
    /\ found_job_names' =
          IF DuplicateName(job_i) THEN found_job_names
          ELSE found_job_names \cup {recurring_runs[job_i].job.name}
    /\ UNCHANGED << fetch_vars, compare_vars, call_vars >>
    /\ UNCHANGED << config_vars, remote_experiments, remote_jobs, next_id, now, pc, run,
                    exp_i, job_i, experiment_vars, resolved, page_token, listed,
                    local_vars, loop_k, faults, previous >>

(***************************************************************************)
(* main(): reconcile recurring runs (lines 1235-1403).                     *)
(***************************************************************************)
\* compare_api_job as main() calls it for the job of the current iteration
LatestIsUpToDate(latest) ==
    LET spec == recurring_runs[job_i]
        job == spec.job
    IN  /\ latest # << >>
        /\ compare_api_job(latest[1], resolved[job_i]._workflow_yaml, job.description,
                           experiment_names_to_id[job.experiment], job.max_concurrency,
                           job_service_account(job),
                           resolved[job_i]._pipeline_parameters_map,
                           job.trigger.catchup, job.trigger.start_date,
                           job.trigger.end_date, job.trigger.cron,
                           job.trigger.interval_seconds)

\* one list_jobs call of get_existing_recurring_runs; after the last page the
\* versions are sorted and the latest one is compared (lines 1277-1304)
ListJobs ==
    /\ Running("list_jobs")
    /\ Log("list_jobs")
    /\ LET found == listed \o FilterPage(ListJobsPage(remote_jobs, page_token),
                                         recurring_runs[job_i].job.name)
           next_page_token == NextPageToken(remote_jobs, page_token)
           existing == SortNewestFirst(found)
           latest == IF existing # << >> THEN << existing[1] >> ELSE << >>
       IN  IF next_page_token # 0
           THEN /\ page_token' = next_page_token
                /\ listed' = found
                /\ UNCHANGED << pc, loop_k, job_i, status, local_vars >>
           ELSE /\ existing_scheduled_runs' = existing
                /\ latest_scheduled_run' = latest
                /\ latest_is_up_to_date' = LatestIsUpToDate(latest)
                /\ new_scheduled_run' = << >>
                /\ GotoDisableOthers(existing, latest, LatestIsUpToDate(latest), 2)
    /\ UNCHANGED << fetch_vars, compare_vars, call_vars >>
    /\ UNCHANGED << config_vars, remote_experiments, remote_jobs, next_id, now, run, exp_i,
                    experiment_vars, found_job_names, resolved, faults, previous >>

\* lines 1306-1316
DisableOther ==
    /\ Running("disable_other")
    /\ remote_jobs' = SetEnabled(remote_jobs, existing_scheduled_runs[loop_k].id, FALSE)
    /\ Log("disable_other")
    /\ GotoDisableOthers(existing_scheduled_runs, latest_scheduled_run,
                         latest_is_up_to_date, loop_k + 1)
    /\ UNCHANGED << fetch_vars, compare_vars, call_vars >>
    /\ UNCHANGED << config_vars, remote_experiments, next_id, now, run, exp_i,
                    experiment_vars, found_job_names, resolved, local_vars, faults,
                    previous >>

\* lines 1320-1330
EnableLatest ==
    /\ Running("enable_latest")
    /\ remote_jobs' = SetEnabled(remote_jobs, latest_scheduled_run[1].id, TRUE)
    /\ Log("enable_latest")
    /\ GotoPrune(existing_scheduled_runs)
    /\ UNCHANGED << fetch_vars, compare_vars, call_vars >>
    /\ UNCHANGED << config_vars, remote_experiments, next_id, now, run, exp_i,
                    experiment_vars, found_job_names, resolved, local_vars, faults,
                    previous >>

\* lines 1332-1341
DisableLatest ==
    /\ Running("disable_latest")
    /\ remote_jobs' = SetEnabled(remote_jobs, latest_scheduled_run[1].id, FALSE)
    /\ Log("disable_latest")
    /\ GotoPrune(existing_scheduled_runs)
    /\ UNCHANGED << fetch_vars, compare_vars, call_vars >>
    /\ UNCHANGED << config_vars, remote_experiments, next_id, now, run, exp_i,
                    experiment_vars, found_job_names, resolved, local_vars, faults,
                    previous >>

\* mutant: the new version created enabled
CreateEnabled_True == TRUE

\* the enabled flag that line 1358 passes to create_recurring_run
CreateEnabled == FALSE

\* mutant: the new run is not put into the list that is pruned
InsertNew_Forgotten(created, existing) == existing

\* line 1375: existing_scheduled_runs.insert(0, new_scheduled_run)
InsertNew(created, existing) == << created >> \o existing

\* lines 1349-1375; the clock has not gone back since the last create
CreateRecurringRun ==
    /\ Running("create_recurring_run")
    /\ \E t \in {now, now + 1} :
          LET job == recurring_runs[job_i].job
              created == CreatedJob(next_id, CreateEnabled,
                                    experiment_names_to_id[job.experiment],
                                    get_new_job_name(job.name, t), job.description,
                                    job.trigger.start_date, job.trigger.end_date,
                                    job.trigger.interval_seconds, job.trigger.cron,
                                    job.max_concurrency, ~job.trigger.catchup,
                                    resolved[job_i]._pipeline_parameters_map,
                                    resolved[job_i]._workflow_yaml,
                                    job_service_account(job))
              existing == InsertNew(created, existing_scheduled_runs)
          IN  /\ now' = t
              /\ remote_jobs' = remote_jobs \cup {created}
              /\ new_scheduled_run' = << created >>
              /\ existing_scheduled_runs' = existing
              /\ GotoDisablePrevious(existing)
    /\ next_id' = next_id + 1
    /\ Log("create_recurring_run")
    /\ UNCHANGED << fetch_vars, compare_vars, call_vars >>
    /\ UNCHANGED << config_vars, remote_experiments, run, exp_i, experiment_vars,
                    found_job_names, resolved, latest_scheduled_run,
                    latest_is_up_to_date, faults, previous >>

\* lines 1377-1382
DisablePrevious ==
    /\ Running("disable_previous")
    /\ remote_jobs' = SetEnabled(remote_jobs, latest_scheduled_run[1].id, FALSE)
    /\ Log("disable_previous")
    /\ GotoEnableNew(existing_scheduled_runs)
    /\ UNCHANGED << fetch_vars, compare_vars, call_vars >>
    /\ UNCHANGED << config_vars, remote_experiments, next_id, now, run, exp_i,
                    experiment_vars, found_job_names, resolved, local_vars, faults,
                    previous >>

\* lines 1384-1390
EnableNew ==
    /\ Running("enable_new")
    /\ remote_jobs' = SetEnabled(remote_jobs, new_scheduled_run[1].id, TRUE)
    /\ Log("enable_new")
    /\ GotoPrune(existing_scheduled_runs)
    /\ UNCHANGED << fetch_vars, compare_vars, call_vars >>
    /\ UNCHANGED << config_vars, remote_experiments, next_id, now, run, exp_i,
                    experiment_vars, found_job_names, resolved, local_vars, faults,
                    previous >>

\* lines 1399-1403: one iteration over existing_scheduled_runs[keep_history:]
DeleteOld ==
    /\ Running("delete_job")
    /\ remote_jobs' = DeleteJob(remote_jobs, existing_scheduled_runs[loop_k].id)
    /\ Log("delete_job")
    /\ IF loop_k < Len(existing_scheduled_runs)
       THEN Goto("delete_job", loop_k + 1) /\ UNCHANGED << job_i, status >>
       ELSE NextJob
    /\ UNCHANGED << fetch_vars, compare_vars, call_vars >>
    /\ UNCHANGED << config_vars, remote_experiments, next_id, now, run, exp_i,
                    experiment_vars, found_job_names, resolved, local_vars, faults,
                    previous >>

(***************************************************************************)
(* A platform call raises: nothing catches it, the run ends where it is.   *)
(***************************************************************************)
\* mutant: the error is caught and the call made again
CallRaises_Retried ==
    /\ status = "running"
    /\ pc \in StartupPositions \cup ExperimentPositions \cup PassPositions
    /\ faults < MaxFaults
    /\ faults' = faults + 1
    /\ calls' = Append(calls, Call(pc, FALSE))
    /\ UNCHANGED << fetch_vars, compare_vars, call_vars >>
    /\ UNCHANGED << config_vars, remote_experiments, remote_jobs, next_id, now, pc, run,
                    exp_i, job_i, experiment_vars, found_job_names, resolved, page_token,
                    listed, local_vars, loop_k, status, previous >>

\* mutant: the versions the run has created are removed again when a call raises
CallRaises_RollsBack ==
    /\ status = "running"
    /\ pc \in StartupPositions \cup ExperimentPositions \cup PassPositions
    /\ faults < MaxFaults
    /\ faults' = faults + 1
    /\ status' = "aborted"
    /\ calls' = Append(calls, Call(pc, FALSE))
    /\ remote_jobs' =
          {j \in remote_jobs :
              j.id < next_id - Cardinality({i \in 1..Len(calls) :
                                             calls[i].op = "create_recurring_run" /\ calls[i].ok})}
    /\ UNCHANGED << fetch_vars, compare_vars, call_vars >>
    /\ UNCHANGED << config_vars, remote_experiments, next_id, now, pc, run,
                    exp_i, job_i, experiment_vars, found_job_names, resolved, page_token,
                    listed, local_vars, loop_k, previous >>

CallRaises ==
    /\ status = "running"
    /\ pc \in StartupPositions \cup ExperimentPositions \cup PassPositions
    /\ faults < MaxFaults
    /\ faults' = faults + 1
    /\ status' = "aborted"
    /\ calls' = Append(calls, Call(pc, FALSE))
    /\ UNCHANGED << fetch_vars, compare_vars, call_vars >>
    /\ UNCHANGED << config_vars, remote_experiments, remote_jobs, next_id, now, pc, run,
                    exp_i, job_i, experiment_vars, found_job_names, resolved, page_token,
                    listed, local_vars, loop_k, previous >>

(***************************************************************************)
(* main() is run again, with the same configuration, on the remote state   *)
(* the run before has left: after a run that completed, or after one that  *)
(* a failed call aborted inside a job's pass, past the listing (an abort   *)
(* before that leaves the jobs of the pass as the run found them).         *)
(***************************************************************************)
Rerun ==
    /\ status = "done" \/ (status = "aborted" /\ pc \in PassPositions \ {"list_jobs"})
    /\ run < MaxRuns
    /\ run' = run + 1
    /\ previous' = << [status |-> status] >>
    /\ pc' = "start"
    /\ status' = "running"
    /\ exp_i' = 1
    /\ job_i' = 1
    /\ experiment_api' = << >>
    /\ experiment_names_to_id' = << >>
    /\ found_job_names' = {}
    /\ resolved' = << >>
    /\ page_token' = 0
    /\ listed' = << >>
    /\ existing_scheduled_runs' = << >>
    /\ latest_scheduled_run' = << >>
    /\ latest_is_up_to_date' = FALSE
    /\ new_scheduled_run' = << >>
    /\ loop_k' = 0
    /\ calls' = << >>
    /\ UNCHANGED << fetch_vars, compare_vars, call_vars >>
    /\ UNCHANGED << config_vars, remote_experiments, remote_jobs, next_id, now, faults >>

Next ==
    \/ Start
    \/ ProbeApiUrl
    \/ ListExperiments
    \/ GetExperimentFound
    \/ GetExperimentNotFound
    \/ CreateExperiment
    \/ UnarchiveExperiment
    \/ ValidateRecurringRun
    \/ RejectRecurringRun
    \/ ListJobs
    \/ DisableOther
    \/ EnableLatest
    \/ DisableLatest
    \/ CreateRecurringRun
    \/ DisablePrevious
    \/ EnableNew
    \/ DeleteOld
    \/ CallRaises
    \/ Rerun

Spec == Init /\ [][Next]_vars

(***************************************************************************)
(* download_github_file (lines 463-524) as processes that share .cache:    *)
(* the commit lookup, the test for the cached file, the download request,  *)
(* and the chunks written to the cached file path itself.                  *)
(***************************************************************************)
\* main() at rest: a dry run of an empty configuration, before its first step
ProgramIdle ==
    /\ dry_run = TRUE
    /\ experiments = << >>
    /\ recurring_runs = << >>
    /\ github = GithubAllFine
    /\ remote_experiments = [n \in ExperimentNames |-> RemoteExperiment(n, "absent")]
    /\ remote_jobs = {}
    /\ next_id = 1
    /\ now = 0
    /\ pc = "start"
    /\ status = "running"
    /\ run = 1
    /\ exp_i = 1
    /\ job_i = 1
    /\ experiment_api = << >>
    /\ experiment_names_to_id = << >>
    /\ found_job_names = {}
    /\ resolved = << >>
    /\ page_token = 0
    /\ listed = << >>
    /\ existing_scheduled_runs = << >>
    /\ latest_scheduled_run = << >>
    /\ latest_is_up_to_date = FALSE
    /\ new_scheduled_run = << >>
    /\ loop_k = 0
    /\ faults = 0
    /\ calls = << >>
    /\ previous = << >>

\* the chunks response.iter_content yields for the file at a commit
Content(commit_hash) == [i \in 1..NumChunks |-> commit_hash * 10 + i]

\* bytes of a file that no write has filled
Hole == 0

\* out_file.write(chunk) at the position of the writer's own file object
WriteAt(bytes, position, chunk) ==
    [i \in 1..(IF Len(bytes) > position THEN Len(bytes) ELSE position) |->
        IF i = position THEN chunk
        ELSE IF i <= Len(bytes) THEN bytes[i] ELSE Hole]

\* mutant: the cached file is never found
os_path_exists_Never(file) == FALSE

\* os.path.exists(cached_file_path)
os_path_exists(file) == file.exists

\* a call ends: what it returns, and what a read of the returned path gives
FetchEnds(f, result, read) ==
    fetchers' = [fetchers EXCEPT ![f].pc = "idle", ![f].result = result, ![f].read = read]

\* lines 492-501: the commit lookup names the key of the cache
CommitLookup(f) ==
    /\ fetchers[f].pc = "idle"
    /\ fetch_count < MaxFetches
    /\ fetch_count' = fetch_count + 1
    /\ \E ok \in BOOLEAN :
          fetchers' = [fetchers EXCEPT ![f] =
             IF ok
             THEN [IdleFetcher EXCEPT !.pc = "exists", !.commit_hash = head,
                                      !.present = cache[head].exists, !.result = "pending"]
             ELSE IdleFetcher]
    /\ UNCHANGED << head, cache, program_vars, compare_vars, call_vars >>

\* line 511: the test for the cached file
CheckCached(f) ==
    /\ fetchers[f].pc = "exists"
    /\ LET found == os_path_exists(cache[fetchers[f].commit_hash])
       IN  fetchers' = [fetchers EXCEPT ![f].found = found,
                                        ![f].pc = IF found THEN "return" ELSE "request"]
    /\ UNCHANGED << head, cache, fetch_count, program_vars, compare_vars, call_vars >>

\* lines 512-519: the download request
DownloadRequest(f) ==
    /\ fetchers[f].pc = "request"
    /\ \E ok \in BOOLEAN :
          fetchers' = [fetchers EXCEPT ![f].requested = TRUE,
                                       ![f].pc = IF ok THEN "open" ELSE "idle",
                                       ![f].result = IF ok THEN "pending" ELSE "none"]
    /\ UNCHANGED << head, cache, fetch_count, program_vars, compare_vars, call_vars >>

\* line 520: open(cached_file_path, "wb") creates or truncates the file
OpenFile(f) ==
    /\ fetchers[f].pc = "open"
    /\ cache' = [cache EXCEPT ![fetchers[f].commit_hash] = [exists |-> TRUE, bytes |-> << >>]]
    /\ fetchers' = [fetchers EXCEPT ![f].pc = "write"]
    /\ UNCHANGED << head, fetch_count, program_vars, compare_vars, call_vars >>

\* lines 521-522: one chunk of the response is written
WriteChunk(f) ==
    /\ fetchers[f].pc = "write"
    /\ fetchers[f].written < NumChunks
    /\ LET commit_hash == fetchers[f].commit_hash
           position == fetchers[f].written + 1
       IN  cache' = [cache EXCEPT ![commit_hash].bytes =
                        WriteAt(cache[commit_hash].bytes, position,
                                Content(commit_hash)[position])]
    /\ fetchers' = [fetchers EXCEPT ![f].written = fetchers[f].written + 1]
    /\ UNCHANGED << head, fetch_count, program_vars, compare_vars, call_vars >>

\* the response is exhausted and the file is closed
CloseFile(f) ==
    /\ fetchers[f].pc = "write"
    /\ fetchers[f].written = NumChunks
    /\ fetchers' = [fetchers EXCEPT ![f].pc = "return"]
    /\ UNCHANGED << head, cache, fetch_count, program_vars, compare_vars, call_vars >>

\* the stream breaks, or the process is stopped, before the last chunk
Interrupted(f) ==
    /\ fetchers[f].pc = "write"
    /\ fetchers[f].written < NumChunks
    /\ FetchEnds(f, "raised", << >>)
    /\ UNCHANGED << head, cache, fetch_count, program_vars, compare_vars, call_vars >>

\* line 524: the path is returned, and the caller reads the file
ReturnPath(f) ==
    /\ fetchers[f].pc = "return"
    /\ FetchEnds(f, "path", cache[fetchers[f].commit_hash].bytes)
    /\ UNCHANGED << head, cache, fetch_count, program_vars, compare_vars, call_vars >>

\* a commit is pushed: the git reference points to the next commit
MoveReference ==
    /\ head < MaxCommits
    /\ head' = head + 1
    /\ UNCHANGED << cache, fetchers, fetch_count, program_vars, compare_vars, call_vars >>

InitFetch == ProgramIdle /\ FetchIdle /\ CompareIdle /\ CallIdle

NextFetch ==
    \/ \E f \in Fetchers : CommitLookup(f)
    \/ \E f \in Fetchers : CheckCached(f)
    \/ \E f \in Fetchers : DownloadRequest(f)
    \/ \E f \in Fetchers : OpenFile(f)
    \/ \E f \in Fetchers : WriteChunk(f)
    \/ \E f \in Fetchers : CloseFile(f)
    \/ \E f \in Fetchers : Interrupted(f)
    \/ \E f \in Fetchers : ReturnPath(f)
    \/ MoveReference

SpecFetch == InitFetch /\ [][NextFetch]_vars

(***************************************************************************)
(* compare_workflows (reconcile_kfp.py lines 821-888 and the same function *)
(* in compare_rendered_pipelines.py lines 109-176) applied to two nested   *)
(* documents and a set of ignored keys.                                    *)
(***************************************************************************)
Keys == {"k", "m"}

\* 0.0, 9e-10 and 1e-9 are the finite floats
Scalars ==
    {NoneDoc, StrDoc("x"), IntDoc(0), IntDoc(1), BoolDoc(TRUE), FloatDoc("finite", 0),
     FloatDoc("finite", 9), FloatDoc("finite", 10), FloatDoc("inf", 0), FloatDoc("nan", 0)}

\* the values of the maps
MapScalars ==
    {NoneDoc, StrDoc("x"), IntDoc(1), FloatDoc("finite", 0), FloatDoc("finite", 9),
     FloatDoc("inf", 0)}

\* the values of the maps that are nested in a map or in a sequence, and of
\* the sequences of two elements
InnerScalars == {NoneDoc, IntDoc(1), FloatDoc("inf", 0)}

MapsOf(values) == {MapDoc(f) : f \in UNION {[ks -> values] : ks \in SUBSET Keys}}

Documents ==
    Scalars \cup MapsOf(MapScalars)
            \cup {ListDoc(<< >>)} \cup {ListDoc(<< x >>) : x \in Scalars}
            \cup {ListDoc(<< x, y >>) : x \in InnerScalars, y \in InnerScalars}
            \cup {ListDoc(<< x >>) : x \in MapsOf(InnerScalars)}
            \cup {MapDoc([key \in {"m"} |-> x]) : x \in MapsOf(InnerScalars)}

IgnoreSets == {{}, {"k"}}

\* the default tolerance and a smaller one
Tolerances == {FLOAT_TOL, FLOAT_TOL - 1}

InitCompare ==
    /\ ProgramIdle
    /\ FetchIdle
    /\ doc_1 \in Documents
    /\ doc_2 \in Documents
    /\ ignored \in IgnoreSets
    /\ tolerance \in Tolerances
    /\ compared = << >>
    /\ CallIdle

\* compare_workflows(workflow_1, workflow_2, ignore_keys, float_tol)
CompareForward ==
    /\ Len(compared) = 0
    /\ compared' = Append(compared,
                          compare_workflows_ignoring(doc_1, doc_2, ignored, tolerance))
    /\ UNCHANGED << doc_1, doc_2, ignored, tolerance, program_vars, fetch_vars, call_vars >>

\* compare_workflows(workflow_2, workflow_1, ignore_keys, float_tol)
CompareBackward ==
    /\ Len(compared) = 1
    /\ compared' = Append(compared,
                          compare_workflows_ignoring(doc_2, doc_1, ignored, tolerance))
    /\ UNCHANGED << doc_1, doc_2, ignored, tolerance, program_vars, fetch_vars, call_vars >>

\* compare_workflows(workflow_1, workflow_1, ignore_keys, float_tol)
CompareSelf ==
    /\ Len(compared) = 2
    /\ compared' = Append(compared,
                          compare_workflows_ignoring(doc_1, doc_1, ignored, tolerance))
    /\ UNCHANGED << doc_1, doc_2, ignored, tolerance, program_vars, fetch_vars, call_vars >>

\* compare_workflows of compare_rendered_pipelines.py on the same arguments
CompareRendered ==
    /\ Len(compared) = 3
    /\ compared' = Append(compared,
                          rendered_compare_workflows(doc_1, doc_2, ignored, tolerance))
    /\ UNCHANGED << doc_1, doc_2, ignored, tolerance, program_vars, fetch_vars, call_vars >>

NextCompare == CompareForward \/ CompareBackward \/ CompareSelf \/ CompareRendered

SpecCompare == InitCompare /\ [][NextCompare]_vars

(***************************************************************************)
(* main() of compare_rendered_pipelines.py (lines 182-279) applied to two  *)
(* pipeline folders: the exit status of the process.                       *)
(***************************************************************************)
\* a document with one key less, and with one key set
Without(item, key) == MapDoc([k \in (DOMAIN item.v) \ {key} |-> item.v[k]])
WithKey(item, key, value) ==
    MapDoc([k \in (DOMAIN item.v) \cup {key} |-> IF k = key THEN value ELSE item.v[k]])

\* what yaml.safe_load gives for the text of a workflow.yaml
RenderedDocuments ==
    {Workflow("image:1", "compiled-today"), Workflow("image:1", "compiled-earlier"),
     Workflow("image:0", "compiled-today"),
     WithKey(Workflow("image:1", "compiled-today"), "kind", StrDoc("Pod")),
     WithKey(Workflow("image:1", "compiled-today"), "apiVersion", StrDoc("v1")),
     Without(Workflow("image:1", "compiled-today"), "metadata"),
     Without(Workflow("image:1", "compiled-today"), "spec"),
     WithKey(Workflow("image:1", "compiled-today"), "metadata", NoneDoc),
     NoneDoc, ListDoc(<< >>)}

\* workflow.yaml of a folder: absent, not parseable as YAML, or a document
WorkflowFiles ==
    {[isfile |-> FALSE, parses |-> FALSE, data |-> NoneDoc],
     [isfile |-> TRUE, parses |-> FALSE, data |-> NoneDoc]} \cup
    {[isfile |-> TRUE, parses |-> TRUE, data |-> d] : d \in RenderedDocuments}

\* params/ of a folder: absent, or its files with their contents
ParamsFolders ==
    {[isdir |-> FALSE, files |-> << >>], [isdir |-> TRUE, files |-> << >>]} \cup
    {[isdir |-> TRUE, files |-> [f \in {"p"} |-> c]] : c \in {"1", "2"}} \cup
    {[isdir |-> TRUE, files |-> [f \in {"p", "q"} |-> "1"]]}

PipelineFolders ==
    {[isdir |-> FALSE, workflow |-> [isfile |-> FALSE, parses |-> FALSE, data |-> NoneDoc],
      params |-> [isdir |-> FALSE, files |-> << >>]]} \cup
    {[isdir |-> TRUE, workflow |-> w, params |-> q] :
        w \in WorkflowFiles, q \in ParamsFolders}

\* validate_workflow_yaml of compare_rendered_pipelines.py: True, False, or
\* the AttributeError of .get on a document that is no dict
rendered_validate_workflow_yaml(file) ==
    IF ~file.parses THEN "False"
    ELSE IF file.data.t # "dict" THEN "raises"
    ELSE IF /\ Get(file.data, "apiVersion") = StrDoc("argoproj.io/v1alpha1")
            /\ Get(file.data, "kind") = StrDoc("Workflow")
            /\ Get(file.data, "metadata") # NoneDoc
            /\ Get(file.data, "spec") # NoneDoc
         THEN "True"
    ELSE "False"

\* mutant: the contents of the params files are not compared
compare_file_contents_Always(file_contents_1, file_contents_2) == TRUE

\* compare_file_contents
compare_file_contents(file_contents_1, file_contents_2) == file_contents_1 = file_contents_2

\* main(): the status the process exits with; an exception that nothing
\* catches ends the interpreter with status 1
rendered_main(pipeline_folder_1, pipeline_folder_2) ==
    LET params_1 == pipeline_folder_1.params
        params_2 == pipeline_folder_2.params
        params_files_1 == DOMAIN params_1.files
        params_files_2 == DOMAIN params_2.files
    IN  IF ~pipeline_folder_1.isdir THEN 1
        ELSE IF ~pipeline_folder_2.isdir THEN 1
        ELSE IF ~pipeline_folder_1.workflow.isfile THEN 1
        ELSE IF ~pipeline_folder_2.workflow.isfile THEN 1
        ELSE IF rendered_validate_workflow_yaml(pipeline_folder_1.workflow) # "True" THEN 1
        ELSE IF rendered_validate_workflow_yaml(pipeline_folder_2.workflow) # "True" THEN 1
        ELSE IF params_1.isdir /\ params_2.isdir /\ params_files_1 # params_files_2 THEN 200
        ELSE IF /\ params_1.isdir
                /\ params_2.isdir
                /\ \E f \in params_files_1 :
                      ~compare_file_contents(params_1.files[f], params_2.files[f])
             THEN 200
        ELSE IF params_1.isdir # params_2.isdir THEN 200
        ELSE IF ~rendered_compare_workflows(pipeline_folder_1.workflow.data,
                                           pipeline_folder_2.workflow.data,
                                           IGNORE_KEYS, FLOAT_TOL)
             THEN 200
        ELSE 0

InitRendered ==
    /\ ProgramIdle
    /\ FetchIdle
    /\ CompareIdle
    /\ call_args \in PipelineFolders \X PipelineFolders
    /\ call_result = << >>

\* python compare_rendered_pipelines.py --pipeline-folder-1 .. --pipeline-folder-2 ..
RenderedMain ==
    /\ call_result = << >>
    /\ call_result' = << rendered_main(call_args[1], call_args[2]) >>
    /\ UNCHANGED << call_args, program_vars, fetch_vars, compare_vars >>

NextRendered == RenderedMain

SpecRendered == InitRendered /\ [][NextRendered]_vars

(***************************************************************************)
(* validate_workflow_yaml of reconcile_kfp.py (lines 527-615) applied to   *)
(* the text of one workflow manifest.                                      *)
(***************************************************************************)
MaxInputs == 2

\* the entries of "inputs" in the pipeline_spec annotation: name and
\* optional are None where the entry has no such key
InputEntries == [name : {None, "a", "b"}, optional : {None, "True", "False"}]

InputLists == UNION {[1..n -> InputEntries] : n \in 0..MaxInputs}

\* the pipelines.kubeflow.org/pipeline_spec annotation: not there, the
\* empty string, a text that json.loads rejects, or a JSON object
PipelineSpecAnnotations ==
    {[text |-> t, inputs |-> << >>] : t \in {"missing", "empty", "unparsable"}} \cup
    {[text |-> "json", inputs |-> i] : i \in InputLists}

\* the texts of a workflow manifest: what yaml.safe_load makes of them
Manifests ==
    {[parses |-> FALSE, is_dict |-> FALSE, api_version |-> None, kind |-> None,
      metadata |-> FALSE, spec |-> FALSE,
      pipeline_spec_json |-> [text |-> "missing", inputs |-> << >>]],
     [parses |-> TRUE, is_dict |-> FALSE, api_version |-> None, kind |-> None,
      metadata |-> FALSE, spec |-> FALSE,
      pipeline_spec_json |-> [text |-> "missing", inputs |-> << >>]]} \cup
    [parses : {TRUE}, is_dict : {TRUE},
     api_version : {"argoproj.io/v1alpha1", "v1", None},
     kind : {"Workflow", "Pod"},
     metadata : BOOLEAN, spec : BOOLEAN,
     pipeline_spec_json : PipelineSpecAnnotations]

\* lines 602-613: the loop over the inputs; it stops at the first entry
\* without a name and keeps what it has put into input_parameters
RECURSIVE extract_input_parameters(_, _, _)
extract_input_parameters(pipeline_spec_parameters, index, input_parameters) ==
    IF index > Len(pipeline_spec_parameters)
    THEN [valid_workflow |-> TRUE, input_parameters |-> input_parameters]
    ELSE LET parameter == pipeline_spec_parameters[index]
             parameter_name == parameter.name
             parameter_optional ==
                 IF parameter.optional = None THEN FALSE ELSE parameter.optional = "True"
         IN  IF parameter_name = None
             THEN [valid_workflow |-> FALSE, input_parameters |-> input_parameters]
             ELSE extract_input_parameters(pipeline_spec_parameters, index + 1,
                      [n \in (DOMAIN input_parameters) \cup {parameter_name} |->
                          IF n = parameter_name THEN parameter_optional
                          ELSE input_parameters[n]])

\* validate_workflow_yaml: what it returns for the text of a manifest, the
\* bare False of line 539, or the AttributeError of .get on a non-dict
validate_workflow_yaml_text(yaml_data) ==
    IF ~yaml_data.parses
    THEN [returned |-> "False", valid_workflow |-> FALSE, input_parameters |-> << >>]
    ELSE IF ~yaml_data.is_dict
    THEN [returned |-> "AttributeError", valid_workflow |-> FALSE, input_parameters |-> << >>]
    ELSE LET valid_1 ==
                 /\ yaml_data.api_version = "argoproj.io/v1alpha1"
                 /\ yaml_data.kind = "Workflow"
                 /\ yaml_data.metadata
                 /\ yaml_data.spec
             pipeline_spec_json == yaml_data.pipeline_spec_json
             \* line 579: only None is missing
             valid_2 == valid_1 /\ pipeline_spec_json.text # "missing"
             \* line 588: json.loads is tried on a non-empty text only
             valid_3 == valid_2 /\ pipeline_spec_json.text # "unparsable"
             extracted ==
                 IF pipeline_spec_json.text = "json"
                 THEN extract_input_parameters(pipeline_spec_json.inputs, 1, << >>)
                 ELSE [valid_workflow |-> TRUE, input_parameters |-> << >>]
         IN  IF ~valid_1
             THEN [returned |-> "tuple", valid_workflow |-> FALSE, input_parameters |-> << >>]
             ELSE [returned |-> "tuple",
                   valid_workflow |-> valid_3 /\ extracted.valid_workflow,
                   input_parameters |-> extracted.input_parameters]

InitValidate ==
    /\ ProgramIdle
    /\ FetchIdle
    /\ CompareIdle
    /\ call_args \in {<< yaml_data >> : yaml_data \in Manifests}
    /\ call_result = << >>

\* validate_workflow_yaml(workflow_yaml, file_path)
ValidateWorkflowYaml ==
    /\ call_result = << >>
    /\ call_result' = << validate_workflow_yaml_text(call_args[1]) >>
    /\ UNCHANGED << call_args, program_vars, fetch_vars, compare_vars >>

NextValidate == ValidateWorkflowYaml

SpecValidate == InitValidate /\ [][NextValidate]_vars

(***************************************************************************)
(* get_new_job_name (lines 891-898) called for one job name at two moments *)
(* of the clock.                                                           *)
(***************************************************************************)
\* moments of datetime.now(timezone.utc), around the turn of every field
Instants ==
    [year : {1999, 2000}, month : {9, 10}, day : {9, 10}, hour : {9, 10},
     minute : {9, 10}, second : {9, 10}, microsecond : {0, 500000}]

FieldsOf(t) == << t.year, t.month, t.day, t.hour, t.minute, t.second, t.microsecond >>

\* t1 < t2 on the clock
Earlier(t1, t2) ==
    \E i \in 1..7 :
        /\ \A j \in 1..(i - 1) : FieldsOf(t1)[j] = FieldsOf(t2)[j]
        /\ FieldsOf(t1)[i] < FieldsOf(t2)[i]

InitNames ==
    /\ ProgramIdle
    /\ FetchIdle
    /\ CompareIdle
    /\ call_args \in {<< Spelling(n), t1, t2 >> : n \in JobNames, t1 \in Instants, t2 \in Instants}
    /\ Earlier(call_args[2], call_args[3])
    /\ call_result = << >>

\* two versions of one job name are created, the first at t1, the second at t2
GetNewJobName ==
    /\ call_result = << >>
    /\ call_result' = << get_new_job_name_at(call_args[1], call_args[2]),
                         get_new_job_name_at(call_args[1], call_args[3]) >>
    /\ UNCHANGED << call_args, program_vars, fetch_vars, compare_vars >>

NextNames == GetNewJobName

SpecNames == InitNames /\ [][NextNames]_vars

(***************************************************************************)
(* compare_api_job (lines 665-818) applied to a version that an earlier    *)
(* run created for one declaration of a job, and to the declaration the    *)
(* present run has resolved.                                               *)
(***************************************************************************)
\* what main() unpacks of a resolved job (lines 1241-1264)
BaseJob ==
    [description |-> "nightly", experiment_id |-> 91, max_concurrency |-> 1,
     service_account |-> None, parameters |-> [n \in {"message"} |-> ""],
     catchup |-> TRUE, start_date |-> None, end_date |-> None,
     cron |-> "0 0 * * * *", interval_seconds |-> NoneId,
     workflow |-> Workflow("image:1", "compiled-today")]

\* the declarations that differ from BaseJob in one field
ResolvedJobs ==
    {BaseJob}
    \cup {[BaseJob EXCEPT !.description = d] : d \in {"weekly", None}}
    \cup {[BaseJob EXCEPT !.experiment_id = 92]}
    \cup {[BaseJob EXCEPT !.max_concurrency = 2]}
    \cup {[BaseJob EXCEPT !.service_account = a] : a \in {"", DefaultRunnerSA, "runner"}}
    \cup {[BaseJob EXCEPT !.parameters = [n \in {"message"} |-> "hello"]],
          [BaseJob EXCEPT !.parameters = << >>]}
    \cup {[BaseJob EXCEPT !.catchup = FALSE]}
    \cup {[BaseJob EXCEPT !.start_date = d] : d \in DateStrings}
    \cup {[BaseJob EXCEPT !.end_date = d] : d \in DateStrings}
    \cup {[BaseJob EXCEPT !.cron = "0 5 * * * *"]}
    \cup {[BaseJob EXCEPT !.cron = None, !.interval_seconds = i] : i \in {60, 120}}
    \cup {[BaseJob EXCEPT !.workflow = w] :
             w \in {Workflow("image:1", "compiled-earlier"), Workflow("image:0", "compiled-today")}}

\* the version create_recurring_run (lines 1353-1372) made of a declaration
VersionOf(job, enabled, t) ==
    CreatedJob(1, enabled, job.experiment_id, get_new_job_name("a", t), job.description,
               job.start_date, job.end_date, job.interval_seconds, job.cron,
               job.max_concurrency, ~job.catchup, job.parameters, job.workflow,
               job_service_account(job))

InitStale ==
    /\ ProgramIdle
    /\ FetchIdle
    /\ CompareIdle
    /\ call_args \in {<< VersionOf(created, enabled, t), created, job >> :
                        created \in ResolvedJobs, job \in ResolvedJobs,
                        enabled \in BOOLEAN, t \in 1..2}
    /\ call_result = << >>

\* latest_is_up_to_date = compare_api_job(...) of lines 1291-1304
CompareApiJob ==
    /\ call_result = << >>
    /\ LET api_job == call_args[1]
           job == call_args[3]
       IN  call_result' =
              << compare_api_job(api_job, job.workflow, job.description, job.experiment_id,
                                 job.max_concurrency, job_service_account(job),
                                 job.parameters, job.catchup, job.start_date, job.end_date,
                                 job.cron, job.interval_seconds) >>
    /\ UNCHANGED << call_args, program_vars, fetch_vars, compare_vars >>

NextStale == CompareApiJob

SpecStale == InitStale /\ [][NextStale]_vars

TypeOK ==
    /\ status \in {"running", "done", "aborted", "invalid_config"} \cup Rejected
    /\ run \in 1..MaxRuns
    /\ faults \in 0..MaxFaults

(***************************************************************************)
(* Observations the properties are stated with.                            *)
(***************************************************************************)
\* the remote versions of a declared job name, and the enabled ones
Versions(job_name) == {j \in remote_jobs : MatchesJobName(j, job_name)}
EnabledVersions(job_name) == {j \in Versions(job_name) : j.enabled}

\* the calls of the current run with an operation of a set
CallsOf(ops) == {i \in 1..Len(calls) : calls[i].op \in ops}

\* the calls of the current run made in the pass over the j-th declared job
CallsAt(j, positions) ==
    {i \in 1..Len(calls) : calls[i].job = j /\ calls[i].at \in positions}

\* every declared recurring run has passed the validation loop
AllValidated == Len(resolved) = Len(recurring_runs)

\* the run is in the reconcile loop, or has left it
Reconciling == ~dry_run /\ pc \in PassPositions \cup {"done"}

\* the pass over the j-th declared job has completed without error
PassCompleted(j) == Reconciling /\ (j < job_i \/ status = "done")

\* the declared job whose pass the local variables of main() belong to, 0 if
\* no pass has listed its versions yet
CurrentPass ==
    IF ~Reconciling THEN 0
    ELSE IF pc = "list_jobs" THEN job_i - 1
    ELSE job_i

\* the run before this one completed without error
SecondRun == previous # << >> /\ previous[1].status = "done"

(***************************************************************************)
(* C1: in a non-dry-run no mutating platform call is made before every     *)
(* declared recurring run has passed validation.                           *)
(***************************************************************************)
C1_NoMutationBeforeValidated ==
    (~dry_run /\ ~AllValidated) => CallsOf(MutatingOps) = {}

(***************************************************************************)
(* C2: no job-level call (list_jobs, create_recurring_run, enable_job,     *)
(* disable_job, delete_job) is made until the validation loop has          *)
(* completed for every declared job.                                       *)
(***************************************************************************)
C2_NoJobCallBeforeValidated ==
    ~AllValidated => CallsOf(JobLevelOps) = {}

\* the second declared job, or a later one, is rejected after the experiments
\* were reconciled with platform calls
C2_Witness ==
    /\ status \in Rejected
    /\ job_i >= 2
    /\ CallsOf({"unarchive_experiment"}) # {}

(***************************************************************************)
(* C3: a second run after an error-free non-dry-run, with the same config  *)
(* and remote state, makes zero mutating platform calls.                   *)
(***************************************************************************)
C3_SecondRunMutatesNothing ==
    (SecondRun /\ ~dry_run) => CallsOf(MutatingOps) = {}

(***************************************************************************)
(* C4: a second pass over a job right after a successful first pass makes  *)
(* zero create_recurring_run, enable_job, disable_job and delete_job       *)
(* calls, for every keep_history >= -1.                                    *)
(***************************************************************************)
JobMutatingOps == {"create_recurring_run", "enable_job", "disable_job", "delete_job"}

C4_SecondPassMutatesNothing ==
    SecondRun => CallsOf(JobMutatingOps) = {}

\* the same with keep_history = 0 left out
C4_ExceptKeepNothing ==
    (SecondRun /\ \A j \in 1..Len(recurring_runs) : recurring_runs[j].keep_history # 0)
        => CallsOf(JobMutatingOps) = {}

(***************************************************************************)
(* Observations of one pass.                                               *)
(***************************************************************************)
EnabledIn(jobs, job_name) == {j \in jobs : MatchesJobName(j, job_name) /\ j.enabled}

\* the remote job of an object that main() holds is enabled
RemoteEnabled(jobs, held) ==
    held # << >> /\ \E j \in jobs : j.id = held[1].id /\ j.enabled

JobName(j) == recurring_runs[j].job.name

\* the versions the listing of the current pass reported, and the enabled ones
Listed ==
    {v \in {existing_scheduled_runs[k] : k \in 1..Len(existing_scheduled_runs)} :
        new_scheduled_run = << >> \/ v.id # new_scheduled_run[1].id}
ListedOthers == {v \in Listed : v.id # latest_scheduled_run[1].id}
Ids(versions) == {v.id : v \in versions}

\* the positions, in call order, of the calls of pass j at a set of positions
RECURSIVE PositionsOf(_, _, _)
PositionsOf(log, j, positions) ==
    IF log = << >> THEN << >>
    ELSE (IF Head(log).job = j /\ Head(log).at \in positions
          THEN << Head(log).at >> ELSE << >>) \o PositionsOf(Tail(log), j, positions)

IsPrefix(s, t) == Len(s) <= Len(t) /\ SubSeq(t, 1, Len(s)) = s

(***************************************************************************)
(* C5: no platform call of a pass takes the job name from at most one      *)
(* enabled version to more than one, and the new version is never enabled  *)
(* while the previous latest is still enabled.                             *)
(***************************************************************************)
C5_NeverTwoEnabled ==
    [][(status = "running" /\ pc \in PassPositions)
          => /\ Cardinality(EnabledIn(remote_jobs, JobName(job_i))) <= 1
                  => Cardinality(EnabledIn(remote_jobs', JobName(job_i))) <= 1
             /\ ~(RemoteEnabled(remote_jobs', new_scheduled_run')
                    /\ RemoteEnabled(remote_jobs', latest_scheduled_run'))]_vars

\* the new version has just been enabled in a pass that found the previous
\* latest as the one enabled version
C5_Witness ==
    /\ calls # << >>
    /\ calls[Len(calls)].at = "enable_new"
    /\ calls[Len(calls)].ok
    /\ latest_scheduled_run # << >>
    /\ latest_scheduled_run[1].enabled
    /\ Cardinality({v \in Listed : v.enabled}) = 1

(***************************************************************************)
(* C6: after a pass over a declared job completes without error, at most   *)
(* one remote version of that job name is enabled.                         *)
(***************************************************************************)
C6_OneEnabledAfterPass ==
    \A j \in 1..Len(recurring_runs) :
        PassCompleted(j) => Cardinality(EnabledVersions(JobName(j))) <= 1

\* a completed pass whose listing reported two or more enabled versions
C6_Witness ==
    /\ status = "done"
    /\ ~dry_run
    /\ Cardinality({v \in Listed : v.enabled}) >= 2

(***************************************************************************)
(* C7: after a pass over a declared job completes without error with       *)
(* keep_history = k # -1, at most k remote versions of that job name       *)
(* remain, counting a version created during the pass.                     *)
(***************************************************************************)
C7_HistoryBounded ==
    \A j \in 1..Len(recurring_runs) :
        (PassCompleted(j) /\ recurring_runs[j].keep_history # -1)
            => Cardinality(Versions(JobName(j))) <= recurring_runs[j].keep_history

\* a completed pass that created a version, deleted one, and kept k >= 1
C7_Witness ==
    /\ status = "done"
    /\ new_scheduled_run # << >>
    /\ CallsOf({"delete_job"}) # {}
    /\ recurring_runs[job_i].keep_history >= 1
    /\ Cardinality(Versions(JobName(job_i))) = recurring_runs[job_i].keep_history

(***************************************************************************)
(* C8: when the latest version is absent or stale the pass calls           *)
(* create_recurring_run with enabled=false, then disable_job on the        *)
(* previous latest (only if one existed), then enable_job on the new       *)
(* version (only if job.enabled), in this order.                           *)
(***************************************************************************)
CreatePositions == {"create_recurring_run", "disable_previous", "enable_new"}

ExpectedCreateCalls ==
    << "create_recurring_run" >>
        \o (IF latest_scheduled_run # << >> THEN << "disable_previous" >> ELSE << >>)
        \o (IF recurring_runs[CurrentPass].job.enabled THEN << "enable_new" >> ELSE << >>)

C8_CreateDisableEnable ==
    (CurrentPass >= 1 /\ ~latest_is_up_to_date) =>
        LET made == PositionsOf(calls, CurrentPass, CreatePositions) IN
        /\ IsPrefix(made, ExpectedCreateCalls)
        /\ (pc = "delete_job" \/ PassCompleted(CurrentPass)) => made = ExpectedCreateCalls
        /\ new_scheduled_run # << >> => ~new_scheduled_run[1].enabled
        /\ \A i \in CallsAt(CurrentPass, {"disable_previous"}) :
              calls[i].op = "disable_job" /\ calls[i].target = latest_scheduled_run[1].id
        /\ \A i \in CallsAt(CurrentPass, {"enable_new"}) :
              calls[i].op = "enable_job" /\ calls[i].target = new_scheduled_run[1].id

\* a pass that made all three calls
C8_Witness ==
    /\ CurrentPass >= 1
    /\ ~latest_is_up_to_date
    /\ status = "done"
    /\ PositionsOf(calls, CurrentPass, CreatePositions)
          = << "create_recurring_run", "disable_previous", "enable_new" >>

(***************************************************************************)
(* C9: if a pass over a job whose latest version is absent or stale aborts *)
(* on an API error at a call before the enable of the new version has      *)
(* completed, no version of that job name is enabled.                      *)
(***************************************************************************)
AbortedBeforeEnabled ==
    /\ status = "aborted"
    /\ ~dry_run
    /\ pc \in {"disable_other", "create_recurring_run", "disable_previous", "enable_new"}
    /\ ~latest_is_up_to_date

C9_AbortLeavesNoneEnabled ==
    AbortedBeforeEnabled => EnabledVersions(JobName(job_i)) = {}

\* amended: an abort at the enable of the new version leaves no version
\* enabled; an abort at an earlier call leaves the new version not enabled
C9_AbortLeavesNewDisabled ==
    AbortedBeforeEnabled =>
        /\ pc = "enable_new" => EnabledVersions(JobName(job_i)) = {}
        /\ ~RemoteEnabled(remote_jobs, new_scheduled_run)

\* the enable of the new version raised after the enabled previous latest
\* had been disabled
C9_Witness ==
    /\ AbortedBeforeEnabled
    /\ pc = "enable_new"
    /\ latest_scheduled_run # << >>
    /\ latest_scheduled_run[1].enabled

(***************************************************************************)
(* C10: in every pass disable_job is called on every non-latest version    *)
(* the listing reports enabled and on no non-latest version it reports     *)
(* disabled, before any create or enable of the pass.                      *)
(***************************************************************************)
C10_OthersDisabledFirst ==
    CurrentPass >= 1 =>
        LET j == CurrentPass
            targets == {calls[i].target : i \in CallsAt(j, {"disable_other"})}
            enabled_others == Ids({v \in ListedOthers : v.enabled})
        IN  /\ targets \subseteq enabled_others
            /\ ~(pc = "disable_other" /\ job_i = j) => targets = enabled_others
            /\ \A i \in CallsAt(j, PassPositions) :
                  (calls[i].op = "disable_job" /\ calls[i].target \in Ids(ListedOthers))
                      => calls[i].target \in enabled_others
            /\ \A i \in CallsAt(j, {"disable_other"}) :
               \A k \in CallsAt(j, PassPositions) :
                  calls[k].op \in {"create_recurring_run", "enable_job"} => i < k

\* a pass that found an enabled and a disabled non-latest version, disabled
\* the first and then created a new version
C10_Witness ==
    /\ CurrentPass >= 1
    /\ CallsAt(CurrentPass, {"disable_other"}) # {}
    /\ \E v \in ListedOthers : ~v.enabled
    /\ CallsAt(CurrentPass, {"create_recurring_run"}) # {}

(***************************************************************************)
(* Observations of the state a pass leaves.                                *)
(***************************************************************************)
\* what a listing of the versions of a job name would return now, newest first
ListingOf(job_name) == SortNewestFirst(FilterPage(CreatedAtDesc(remote_jobs), job_name))

\* compare_api_job of a remote job against the j-th declared job as resolved
EqualsResolved(api_job, j) ==
    LET job == recurring_runs[j].job
    IN  compare_api_job(api_job, resolved[j]._workflow_yaml, job.description,
                        experiment_names_to_id[job.experiment], job.max_concurrency,
                        job_service_account(job), resolved[j]._pipeline_parameters_map,
                        job.trigger.catchup, job.trigger.start_date, job.trigger.end_date,
                        job.trigger.cron, job.trigger.interval_seconds)

\* the converged state of the j-th declared job
Converged(j) ==
    LET versions == ListingOf(JobName(j))
        keep_history == recurring_runs[j].keep_history
    IN  /\ versions # << >>
        /\ EqualsResolved(versions[1], j)
        /\ versions[1].enabled = recurring_runs[j].job.enabled
        /\ \A k \in 2..Len(versions) : ~versions[k].enabled
        /\ keep_history # -1 => Len(versions) <= keep_history

(***************************************************************************)
(* C11: from any remote state of a declared job, the state an aborted pass *)
(* left included, a complete error-free pass ends in the converged state:  *)
(* the newest version equals the resolved job in every compared field, its *)
(* enabled flag equals job.enabled, every other version is disabled and    *)
(* the version count respects keep_history.                                *)
(***************************************************************************)
C11_PassConverges ==
    \A j \in 1..Len(recurring_runs) : PassCompleted(j) => Converged(j)

\* the same for every keep_history other than 0
C11_ExceptKeepNothing ==
    \A j \in 1..Len(recurring_runs) :
        (PassCompleted(j) /\ recurring_runs[j].keep_history # 0) => Converged(j)

\* a run that completed on the state left by a run that aborted inside a pass
C11_AfterAbort ==
    /\ status = "done"
    /\ previous # << >>
    /\ previous[1].status = "aborted"
    /\ Converged(1)

(***************************************************************************)
(* C12: when the latest version is classified current the pass never calls *)
(* create_recurring_run for the job, and of the enabled flags it sets only *)
(* the latest version's: enable_job on the latest iff job.enabled and the  *)
(* latest is disabled, disable_job on the latest iff not job.enabled and   *)
(* the latest is enabled, and neither when the flag already matches.       *)
(***************************************************************************)
\* the pass has passed lines 1318-1348
LatestStepDone(j) == (pc = "delete_job" /\ job_i = j) \/ PassCompleted(j)

C12_CurrentOnlyFlag ==
    (CurrentPass >= 1 /\ latest_is_up_to_date) =>
        LET j == CurrentPass
            job_enabled == recurring_runs[j].job.enabled
            latest == latest_scheduled_run[1]
            enables == CallsAt(j, {"enable_latest"})
            disables == CallsAt(j, {"disable_latest"})
        IN  /\ CallsAt(j, CreatePositions) = {}
            /\ new_scheduled_run = << >>
            /\ \A i \in CallsAt(j, PassPositions) :
                  /\ calls[i].op = "enable_job" => i \in enables
                  /\ (calls[i].op = "disable_job" /\ calls[i].target = latest.id)
                        => i \in disables
            /\ \A i \in enables \cup disables : calls[i].target = latest.id
            /\ enables # {} => (job_enabled /\ ~latest.enabled)
            /\ disables # {} => (~job_enabled /\ latest.enabled)
            /\ LatestStepDone(j) =>
                  /\ Cardinality(enables) = (IF job_enabled /\ ~latest.enabled THEN 1 ELSE 0)
                  /\ Cardinality(disables) = (IF ~job_enabled /\ latest.enabled THEN 1 ELSE 0)

\* a completed pass that found the current latest disabled and enabled it
C12_Witness ==
    /\ CurrentPass >= 1
    /\ latest_is_up_to_date
    /\ status = "done"
    /\ ~latest_scheduled_run[1].enabled
    /\ CallsAt(CurrentPass, {"enable_latest"}) # {}

\* a completed pass that found the current latest as declared and left it
C12_NoCall ==
    /\ CurrentPass >= 1
    /\ latest_is_up_to_date
    /\ status = "done"
    /\ latest_scheduled_run[1].enabled = recurring_runs[CurrentPass].job.enabled
    /\ CallsAt(CurrentPass, JobMutatingOps) = {}

(***************************************************************************)
(* C13: a platform call that raises aborts the whole run: the call is not  *)
(* made again and no platform call follows it, for the same job or for a   *)
(* later declared job.                                                     *)
(***************************************************************************)
C13_RaiseEndsRun ==
    \A i \in 1..Len(calls) :
        ~calls[i].ok => (i = Len(calls) /\ status = "aborted")

\* a call of the pass over the first of two declared jobs has raised
C13_Witness ==
    /\ status = "aborted"
    /\ pc \in PassPositions
    /\ job_i = 1
    /\ Len(recurring_runs) >= 2
    /\ ~calls[Len(calls)].ok

(***************************************************************************)
(* C14: with --dry-run a run makes no call of a mutating platform          *)
(* operation (create_experiment, unarchive_experiment,                     *)
(* create_recurring_run, enable_job, disable_job, delete_job), whatever    *)
(* the configuration and the remote state.                                 *)
(***************************************************************************)
C14_DryRunMutatesNothing ==
    dry_run => CallsOf(MutatingOps) = {}

\* a completed dry run whose first declared job is enabled, keeps one version
\* and has one remote version, enabled and stale: without --dry-run the pass
\* would create, disable, enable and delete
C14_Witness ==
    /\ dry_run
    /\ status = "done"
    /\ recurring_runs[1].job.enabled
    /\ recurring_runs[1].keep_history = 1
    /\ Cardinality(Versions(JobName(1))) = 1
    /\ \E v \in Versions(JobName(1)) :
          v.enabled /\ v.description # recurring_runs[1].job.description

(***************************************************************************)
(* C15: with --dry-run the run still lists the remote versions of every    *)
(* declared job and classifies the latest one as current or stale; only    *)
(* the mutating calls are skipped.                                         *)
(***************************************************************************)
C15_DryRunClassifies ==
    (dry_run /\ status = "done") =>
        \A j \in 1..Len(recurring_runs) : CallsAt(j, {"list_jobs"}) # {}

\* what a dry run does perform: every declared job is validated and its
\* pipeline source fetched
C15_DryRunValidates ==
    (dry_run /\ status = "done") =>
        /\ AllValidated
        /\ \A j \in 1..Len(recurring_runs) :
              \E i \in CallsOf({"download_github_file"}) : calls[i].target = j
        /\ CallsOf(JobLevelOps) = {}

(***************************************************************************)
(* Observations of the pruning of one pass.                                *)
(***************************************************************************)
\* the version of the current pass with an id, and its timestamp
Existing(id) ==
    CHOOSE v \in {existing_scheduled_runs[k] : k \in 1..Len(existing_scheduled_runs)} :
        v.id = id
DigitOf(c) == (CHOOSE d \in 1..10 : Digits[d] = c) - 1

\* the clock value in the name of a version created in the first minute
SecondsOf(api_job) ==
    10 * DigitOf(timestamp_key(api_job)[18]) + DigitOf(timestamp_key(api_job)[19])

TimestampOf(id) == SecondsOf(Existing(id))

\* the delete_job calls of pass j that returned
Deletes(j) == {i \in CallsAt(j, {"delete_job"}) : calls[i].ok}

(***************************************************************************)
(* C16: among the versions a pass deletes, delete_job is called on a       *)
(* version with an older timestamp before any version with a newer one.    *)
(***************************************************************************)
C16_OldestDeletedFirst ==
    CurrentPass >= 1 =>
        \A i, k \in Deletes(CurrentPass) :
            i < k => TimestampOf(calls[i].target) <= TimestampOf(calls[k].target)

\* the order main() deletes in: the slice is walked from its newest element
C16_NewestDeletedFirst ==
    CurrentPass >= 1 =>
        \A i, k \in Deletes(CurrentPass) :
            i < k => TimestampOf(calls[i].target) >= TimestampOf(calls[k].target)

(***************************************************************************)
(* C17: pruning runs in every pass: with n existing versions, the latest   *)
(* current and keep_history = k, 0 < k < n, the pass makes exactly n - k   *)
(* delete_job calls, on the n - k versions with the oldest timestamps, and *)
(* no create_recurring_run call.                                           *)
(***************************************************************************)
C17_PrunesWithoutCreate ==
    LET j == CurrentPass
        n == Len(existing_scheduled_runs)
        k == recurring_runs[j].keep_history
        deleted == {calls[i].target : i \in Deletes(j)}
        kept == Ids(Listed) \ deleted
    IN  (j >= 1 /\ latest_is_up_to_date /\ PassCompleted(j) /\ 0 < k /\ k < n) =>
            /\ Cardinality(Deletes(j)) = n - k
            /\ Cardinality(deleted) = n - k
            /\ deleted \subseteq Ids(Listed)
            /\ \A d \in deleted, e \in kept : TimestampOf(d) <= TimestampOf(e)
            /\ deleted = Ids(Listed) \ Ids(Versions(JobName(j)))
            /\ CallsAt(j, {"create_recurring_run"}) = {}

\* a completed pass over three versions with the latest current that kept one
C17_Witness ==
    /\ CurrentPass >= 1
    /\ latest_is_up_to_date
    /\ status = "done"
    /\ Len(existing_scheduled_runs) = 3
    /\ recurring_runs[CurrentPass].keep_history = 1
    /\ Cardinality(Deletes(CurrentPass)) = 2

(***************************************************************************)
(* C18: with keep_history = -1 a pass never calls delete_job for the job,  *)
(* whatever the number of versions and the classification of the latest.   *)
(***************************************************************************)
C18_KeepAllNeverDeletes ==
    \A i \in CallsOf({"delete_job"}) : recurring_runs[calls[i].job].keep_history # -1

\* a completed pass with keep_history = -1 that created a version next to the
\* three it found
C18_Witness ==
    /\ status = "done"
    /\ ~dry_run
    /\ recurring_runs[1].keep_history = -1
    /\ new_scheduled_run # << >>
    /\ Cardinality(Versions(JobName(1))) = 4

(***************************************************************************)
(* C19: for a declared job with job.enabled = true and no remote version,  *)
(* a pass makes exactly one create_recurring_run call, with enabled=false, *)
(* then exactly one enable_job call, on the created version, and no        *)
(* disable_job and no delete_job call.                                     *)
(***************************************************************************)
\* the pass over job j found no version of an enabled job and has completed
FirstPassCompleted(j) ==
    /\ j >= 1
    /\ PassCompleted(j)
    /\ latest_scheduled_run = << >>
    /\ recurring_runs[j].job.enabled

CreateThenEnable(j) ==
    /\ PositionsOf(calls, j, PassPositions \ {"list_jobs"})
          = << "create_recurring_run", "enable_new" >>
    /\ ~new_scheduled_run[1].enabled
    /\ \A i \in CallsAt(j, {"enable_new"}) :
          calls[i].op = "enable_job" /\ calls[i].target = new_scheduled_run[1].id

C19_FirstVersion ==
    FirstPassCompleted(CurrentPass) => CreateThenEnable(CurrentPass)

\* the same for every keep_history other than 0
C19_ExceptKeepNothing ==
    (FirstPassCompleted(CurrentPass) /\ recurring_runs[CurrentPass].keep_history # 0)
        => CreateThenEnable(CurrentPass)

\* with keep_history = 0 the created and enabled version is deleted at once
C19_CreatedThenDeleted ==
    /\ FirstPassCompleted(CurrentPass)
    /\ PositionsOf(calls, CurrentPass, PassPositions \ {"list_jobs"})
          = << "create_recurring_run", "enable_new", "delete_job" >>
    /\ Versions(JobName(CurrentPass)) = {}

(***************************************************************************)
(* C20: a recurring run whose trigger declares both cron and               *)
(* interval_seconds, or neither, is rejected by config validation, and the *)
(* run has made no remote call (reachability probe, platform API,          *)
(* git-hosting) when it is rejected.                                       *)
(***************************************************************************)
\* a declared trigger with both or with neither of cron and interval_seconds
BadTrigger ==
    \E j \in 1..Len(recurring_runs) :
        LET trigger == recurring_runs[j].job.trigger
        IN  (trigger.cron # None) = (trigger.interval_seconds # NoneId)

C20_RejectedBeforeRemoteCall ==
    BadTrigger =>
        /\ pc \in {"start", "probe"}
        /\ status = "invalid_config" => calls = << >>

\* what holds: the run is rejected and has made no call but the probe
C20_RejectedAfterProbe ==
    BadTrigger =>
        /\ pc \in {"start", "probe"}
        /\ status \in {"running", "invalid_config", "aborted"}
        /\ \A i \in 1..Len(calls) : calls[i].op = "probe"
        /\ (status = "invalid_config" /\ dry_run) => calls = << >>
        /\ (status = "invalid_config" /\ ~dry_run) => Len(calls) = 1

\* a dry run has rejected such a trigger
C20_DryRunRejected ==
    BadTrigger /\ dry_run /\ status = "invalid_config"

(***************************************************************************)
(* C26: the listing of a job's versions follows next_page_token until the  *)
(* platform returns none: the versions the pass works on are the remote    *)
(* versions of the job name on all pages, each once, and the one chosen as *)
(* latest has the greatest name timestamp of them all.                     *)
(***************************************************************************)
\* the listing of the current pass has just returned
JustListed ==
    /\ CurrentPass >= 1
    /\ calls[Len(calls)].at = "list_jobs"
    /\ calls[Len(calls)].job = CurrentPass
    /\ calls[Len(calls)].ok

\* the pages a listing of the jobs of the namespace takes
PagesOf(jobs) ==
    IF jobs = {} THEN 1 ELSE (Cardinality(jobs) + PageSize - 1) \div PageSize

C26_ListingDrainsPages ==
    JustListed =>
        LET j == CurrentPass
            versions == Versions(JobName(j))
        IN  /\ Ids(Listed) = Ids(versions)
            /\ Len(existing_scheduled_runs) = Cardinality(versions)
            /\ Cardinality(CallsAt(j, {"list_jobs"})) = PagesOf(remote_jobs)
            /\ versions # {} =>
                  /\ latest_scheduled_run # << >>
                  /\ \A v \in versions :
                        SecondsOf(v) <= SecondsOf(latest_scheduled_run[1])
            /\ versions = {} => latest_scheduled_run = << >>

\* a listing of two pages or more with a version of the job on a later page
C26_Witness ==
    /\ JustListed
    /\ Cardinality(CallsAt(CurrentPass, {"list_jobs"})) >= 2
    /\ \E v \in Listed :
          \A k \in 1..Len(ListJobsPage(remote_jobs, 0)) :
              ListJobsPage(remote_jobs, 0)[k].id # v.id

(***************************************************************************)
(* C27: for each declared experiment of a run that is not a dry run,       *)
(* create_experiment is called iff the lookup by name reports that no such *)
(* experiment exists; an experiment that exists keeps its description,     *)
(* also when the configuration declares another one; a lookup that raises  *)
(* another error ends the run.                                             *)
(***************************************************************************)
C27_CreateIffAbsent ==
    [][/\ (Running("get_experiment") /\ Len(calls') > Len(calls)) =>
             LET exists == remote_experiments[experiments[exp_i].name].exists
                 raised == ~calls'[Len(calls')].ok
             IN  /\ raised => status' = "aborted"
                 /\ ~raised => /\ pc' = "create_experiment" <=> ~exists
                               /\ pc' = "unarchive_experiment" <=> exists
       /\ (Len(calls') > Len(calls) /\ calls'[Len(calls')].op = "create_experiment") =>
             /\ pc = "create_experiment"
             /\ ~remote_experiments[experiments[exp_i].name].exists
       /\ \A n \in ExperimentNames :
             remote_experiments[n].exists =>
                /\ remote_experiments'[n].exists
                /\ remote_experiments'[n].id = remote_experiments[n].id
                /\ remote_experiments'[n].description = remote_experiments[n].description
      ]_vars

\* an experiment that exists with another description than declared has been
\* reconciled
C27_Witness ==
    /\ ~dry_run
    /\ "e1" \in DOMAIN experiment_names_to_id
    /\ experiment_names_to_id["e1"] = OldExperimentId("e1")
    /\ experiments[1].description = "team"
    /\ remote_experiments["e1"].description = None

(***************************************************************************)
(* C28: after a run that is not a dry run has reconciled a declared        *)
(* experiment without error, the experiment is not archived, whether it    *)
(* was found or created, and the id the name maps to for the reconcile     *)
(* loop is the id of that experiment.                                      *)
(***************************************************************************)
C28_UnarchivedAndMapped ==
    ~dry_run =>
        \A n \in DOMAIN experiment_names_to_id :
            /\ remote_experiments[n].exists
            /\ ~remote_experiments[n].archived
            /\ experiment_names_to_id[n] = remote_experiments[n].id

\* the first of two declared experiments found archived has been reconciled,
\* the second is still archived
C28_Witness ==
    /\ ~dry_run
    /\ pc = "get_experiment"
    /\ exp_i = 2
    /\ "e1" \in DOMAIN experiment_names_to_id
    /\ remote_experiments["e2"].archived
    /\ experiment_names_to_id["e1"] = OldExperimentId("e1")

(***************************************************************************)
(* Observations of the validation loop.                                    *)
(***************************************************************************)
\* the inputs the pipeline of the j-th recurring run declares (name -> optional)
DeclaredInputs(j) == github[recurring_runs[j].pipeline_source.file_path].inputs

\* the parameter names the j-th recurring run gives
GivenNames(j) ==
    {recurring_runs[j].pipeline_parameters[i].name :
        i \in 1..Len(recurring_runs[j].pipeline_parameters)}

\* every required input is among the names, and every name is a declared input
ParametersFit(names, inputs) ==
    /\ \A n \in DOMAIN inputs : ~inputs[n] => n \in names
    /\ names \subseteq DOMAIN inputs

\* the files the j-th recurring run needs from the git host
NeededPaths(j) ==
    {recurring_runs[j].pipeline_source.file_path} \cup
    {recurring_runs[j].pipeline_parameters[i].valueFrom :
        i \in {k \in 1..Len(recurring_runs[j].pipeline_parameters) :
                  recurring_runs[j].pipeline_parameters[k].valueFrom # None}}

\* a file that a declared job needs cannot be fetched
FetchFails ==
    \E j \in 1..Len(recurring_runs), path \in Paths :
        path \in NeededPaths(j) /\ github[path].fetch # "ok"

(***************************************************************************)
(* C21: a configuration with a job of an undeclared experiment, a job name *)
(* declared twice, or two pipeline parameters of one name in one job is    *)
(* rejected, and no mutating platform call has been made when it is        *)
(* rejected.                                                               *)
(***************************************************************************)
C21_RejectedBeforeMutation ==
    status \in {"unknown_experiment", "duplicate_name", "parameter_name"} =>
        CallsOf(MutatingOps) = {}

\* what holds of these rejections: no job-level platform call has been made,
\* and a dry run has made no mutating call
C21_RejectedBeforeJobs ==
    status \in {"unknown_experiment", "duplicate_name", "parameter_name"} =>
        /\ CallsOf(JobLevelOps) = {}
        /\ dry_run => CallsOf(MutatingOps) = {}

\* two parameters of one name are rejected after the declared experiment was
\* unarchived
C21_RejectedAfterUnarchive ==
    /\ status = "parameter_name"
    /\ CallsOf({"unarchive_experiment"}) # {}

(***************************************************************************)
(* C22: a job passes the validation of its parameters iff the names it     *)
(* gives contain every input of the pipeline that is not optional and no   *)
(* name that the pipeline does not declare; a missing required parameter   *)
(* or an extra parameter ends the run, a missing optional one is accepted. *)
(***************************************************************************)
C22_ParametersFit ==
    /\ \A j \in 1..Len(resolved) :
          /\ DOMAIN resolved[j]._pipeline_parameters_map = GivenNames(j)
          /\ ParametersFit(GivenNames(j), DeclaredInputs(j))
    /\ status \in {"missing_parameters", "extra_parameters"} =>
          /\ ~ParametersFit(GivenNames(job_i), DeclaredInputs(job_i))
          /\ CallsOf(JobLevelOps) = {}
    /\ status = "missing_parameters" <=>
          /\ status \in {"missing_parameters", "extra_parameters"}
          /\ \E n \in DOMAIN DeclaredInputs(job_i) :
                ~DeclaredInputs(job_i)[n] /\ n \notin GivenNames(job_i)

\* a job that does not give an optional input has been reconciled
C22_Witness ==
    /\ ~dry_run
    /\ status = "done"
    /\ Len(resolved) = 1
    /\ \E n \in DOMAIN DeclaredInputs(1) : DeclaredInputs(1)[n] /\ n \notin GivenNames(1)
    /\ GivenNames(1) # {}

(***************************************************************************)
(* C23: when the commit lookup or the download of the pipeline source or   *)
(* of a valueFrom parameter of any declared job does not answer 200, the   *)
(* fetcher returns no path and the run ends without a job-level platform   *)
(* call for any declared job.                                              *)
(***************************************************************************)
C23_FetchFailureEndsRun ==
    /\ FetchFails =>
          /\ CallsOf(JobLevelOps) = {}
          /\ status # "done"
          /\ Len(resolved) < Len(recurring_runs)
    /\ status = "fetch" => FetchFails

\* the pipeline source of the second job cannot be fetched after the first
\* job, with its parameter file, was validated
C23_Witness ==
    /\ ~dry_run
    /\ status = "fetch"
    /\ job_i = 2
    /\ Len(resolved) = 1
    /\ github[PipelinePath("a__b")].fetch = "download_failed"

(***************************************************************************)
(* C24: the fetcher keeps one file per commit hash and path.  A fetch that *)
(* finds the file present returns it without a download request and        *)
(* without writing; a file that was present when a fetch looked up its     *)
(* commit is never changed or removed by that fetch, in this run or in a   *)
(* later one.                                                              *)
(***************************************************************************)
C24_CachedFileKept ==
    [][/\ \A commit_hash \in Hashes : cache[commit_hash].exists => cache'[commit_hash].exists
       /\ \A f \in Fetchers :
             fetchers'[f] # fetchers[f] =>
                LET commit_hash == fetchers[f].commit_hash IN
                /\ (fetchers[f].pc = "exists" /\ cache[commit_hash].exists) =>
                      fetchers'[f].found /\ fetchers'[f].pc = "return"
                /\ (fetchers[f].pc = "exists" /\ fetchers[f].present) => fetchers'[f].found
                /\ fetchers'[f].found =>
                      /\ ~fetchers'[f].requested
                      /\ fetchers'[f].written = 0
                      /\ cache' = cache
                /\ (fetchers[f].found /\ fetchers[f].pc = "return") =>
                      /\ fetchers'[f].result = "path"
                      /\ fetchers'[f].read = cache[commit_hash].bytes
       /\ cache' # cache =>
             \E f \in Fetchers :
                /\ fetchers[f].pc \in {"open", "write"}
                /\ ~fetchers[f].present
                /\ ~fetchers[f].found
                /\ \A commit_hash \in Hashes \ {fetchers[f].commit_hash} :
                      cache'[commit_hash] = cache[commit_hash]
      ]_vars

\* a fetch found the file that an earlier fetch wrote, and returned it
\* without a download request
C24_Witness ==
    \E f \in Fetchers :
        /\ fetchers[f].pc = "idle"
        /\ fetchers[f].result = "path"
        /\ fetchers[f].present
        /\ fetchers[f].found
        /\ ~fetchers[f].requested
        /\ fetchers[f].read = Content(fetchers[f].commit_hash)
        /\ fetch_count >= 2

(***************************************************************************)
(* C25: whenever a fetch finds a file present in the cache and returns it, *)
(* the file holds the complete bytes of the remote file of that commit,    *)
(* also when another fetch of the same file is writing it and when an      *)
(* earlier download of it was interrupted.                                 *)
(***************************************************************************)
C25_FoundFileIsComplete ==
    \A f \in Fetchers :
        (fetchers[f].result = "path" /\ fetchers[f].found) =>
            fetchers[f].read = Content(fetchers[f].commit_hash)

\* what holds of a cached file: each chunk of it is the chunk of the remote
\* file of its commit at that place, or was never written
C25_NoForeignBytes ==
    \A commit_hash \in Hashes :
        \A i \in 1..Len(cache[commit_hash].bytes) :
            cache[commit_hash].bytes[i] \in {Content(commit_hash)[i], Hole}

\* a fetch returned a file that an interrupted download left incomplete,
\* while no fetch was writing
C25_PartialFileReturned ==
    \E f \in Fetchers :
        /\ fetchers[f].result = "path"
        /\ fetchers[f].found
        /\ Len(fetchers[f].read) < NumChunks
        /\ \A g \in Fetchers : fetchers[g].pc = "idle"
        /\ \E g \in Fetchers : fetchers[g].result = "raised"

(***************************************************************************)
(* Observations of the comparator.                                         *)
(***************************************************************************)
\* the two documents are the same outside the subtrees under the keys
RECURSIVE SameOutside(_, _, _)
SameOutside(a, b, ks) ==
    IF a.t # b.t THEN FALSE
    ELSE IF a.t = "dict"
         THEN /\ KeysOf(a, ks) = KeysOf(b, ks)
              /\ \A key \in KeysOf(a, ks) : SameOutside(a.v[key], b.v[key], ks)
    ELSE IF a.t = "list"
         THEN /\ Len(a.v) = Len(b.v)
              /\ \A index \in 1..Len(a.v) : SameOutside(a.v[index], b.v[index], ks)
    ELSE a = b

\* the document holds inf or nan outside the subtrees under the keys
RECURSIVE HasNonFinite(_, _)
HasNonFinite(a, ks) ==
    IF a.t = "dict" THEN \E key \in KeysOf(a, ks) : HasNonFinite(a.v[key], ks)
    ELSE IF a.t = "list" THEN \E index \in 1..Len(a.v) : HasNonFinite(a.v[index], ks)
    ELSE a.t = "float" /\ a.v.kind # "finite"

(***************************************************************************)
(* C29: the comparator is reflexive and symmetric: for all documents a, b  *)
(* and every set of ignored keys, a compares equal to itself, and a        *)
(* compares to b as b compares to a.                                       *)
(***************************************************************************)
C29_ReflexiveSymmetric ==
    /\ Len(compared) >= 2 => compared[1] = compared[2]
    /\ Len(compared) >= 3 => compared[3]

\* what holds: the comparator is symmetric, and reflexive on the documents
\* that hold no inf and no nan outside the ignored keys
C29_SymmetricAndFiniteReflexive ==
    /\ Len(compared) >= 2 => compared[1] = compared[2]
    /\ Len(compared) >= 3 => (compared[3] <=> ~HasNonFinite(doc_1, ignored))

\* a map that holds inf under a key that is not ignored differs from itself
C29_InfDiffersFromItself ==
    /\ Len(compared) = 3
    /\ ~compared[3]
    /\ doc_1 = MapDoc([key \in {"m"} |-> FloatDoc("inf", 0)])

(***************************************************************************)
(* C30: for a key k of ignore_keys, two documents that differ only in the  *)
(* subtree under k, in a map at any depth or in a map inside a sequence,   *)
(* compare equal, also when only one of them has k and when k holds None   *)
(* in only one of them.                                                    *)
(***************************************************************************)
C30_IgnoredSubtreeEqual ==
    (Len(compared) >= 1 /\ ignored # {} /\ SameOutside(doc_1, doc_2, ignored)) =>
        compared[1]

\* what holds: such documents compare equal when they hold no inf and no nan
\* outside the ignored keys, and then only such documents and those within
\* the float tolerance compare equal
C30_ExceptNonFinite ==
    (Len(compared) >= 1 /\ ignored # {} /\ SameOutside(doc_1, doc_2, ignored)) =>
        (compared[1] <=> ~HasNonFinite(doc_1, ignored))

\* two maps inside sequences compare equal, one with None under the ignored
\* key and one without the key
C30_IgnoredInSequence ==
    /\ Len(compared) >= 1
    /\ compared[1]
    /\ ignored = {"k"}
    /\ doc_1 = ListDoc(<< MapDoc([key \in {"k", "m"} |->
                                    IF key = "k" THEN NoneDoc ELSE IntDoc(1)]) >>)
    /\ doc_2 = ListDoc(<< MapDoc([key \in {"m"} |-> IntDoc(1)]) >>)

\* two maps that differ only under the ignored key compare as different: they
\* hold inf under another key
C30_InfOutsideIgnored ==
    /\ Len(compared) >= 1
    /\ ~compared[1]
    /\ ignored = {"k"}
    /\ doc_1 = MapDoc([key \in {"k", "m"} |->
                         IF key = "k" THEN IntDoc(1) ELSE FloatDoc("inf", 0)])
    /\ doc_2 = MapDoc([key \in {"m"} |-> FloatDoc("inf", 0)])

(***************************************************************************)
(* C31: compare_workflows of compare_rendered_pipelines.py and             *)
(* compare_workflows of reconcile_kfp.py return the same result for every  *)
(* pair of documents, every set of ignored keys and every tolerance.       *)
(***************************************************************************)
C31_SameComparator ==
    Len(compared) >= 4 => compared[4] = compared[1]

\* both return equal for two different documents, which differ under the
\* ignored key and by less than the tolerance
C31_Witness ==
    /\ Len(compared) = 4
    /\ compared[1]
    /\ compared[4]
    /\ ignored = {"k"}
    /\ doc_1 = MapDoc([key \in {"k", "m"} |->
                         IF key = "k" THEN IntDoc(1) ELSE FloatDoc("finite", 0)])
    /\ doc_2 = MapDoc([key \in {"m"} |-> FloatDoc("finite", 9)])

(***************************************************************************)
(* C33: two floats compare equal iff the absolute value of their           *)
(* difference is strictly less than float_tol: with the default tolerance  *)
(* 0.0 and 1e-9 are not equal, 0.0 and 9e-10 are equal.                    *)
(***************************************************************************)
C33_StrictlyLessThanTolerance ==
    (Len(compared) >= 1 /\ doc_1.t = "float" /\ doc_2.t = "float") =>
        LET a == doc_1.v
            b == doc_2.v
            difference == IF a.units >= b.units THEN a.units - b.units
                          ELSE b.units - a.units
        IN  /\ (a.kind = "finite" /\ b.kind = "finite") =>
                  (compared[1] <=> difference < tolerance)
            /\ (a.kind # "finite" \/ b.kind # "finite") => ~compared[1]
            /\ (tolerance = FLOAT_TOL /\ a = FloatDoc("finite", 0).v) =>
                  /\ b = FloatDoc("finite", 10).v => ~compared[1]
                  /\ b = FloatDoc("finite", 9).v => compared[1]

\* 0.0 and 1e-9 have been compared with the default tolerance, and differ
C33_Witness ==
    /\ Len(compared) >= 1
    /\ ~compared[1]
    /\ tolerance = FLOAT_TOL
    /\ doc_1 = FloatDoc("finite", 0)
    /\ doc_2 = FloatDoc("finite", 10)

(***************************************************************************)
(* C38: the structural rules of the comparator.  None equals None and      *)
(* nothing else; values of different runtime types are not equal (int and  *)
(* float, bool and int); two maps are equal only if their keys outside     *)
(* ignore_keys are the same and the values of every such key are equal;    *)
(* two sequences are equal only if they have the same length and are       *)
(* equal position by position, so the reverse of a sequence of two         *)
(* elements that differ is not equal to it.                                *)
(***************************************************************************)
C38_StructuralRules ==
    Len(compared) >= 1 =>
        LET Equal(x, y) == compare_workflows_ignoring(x, y, ignored, tolerance) IN
        /\ (doc_1.t = "none" /\ doc_2.t = "none") => compared[1]
        /\ (doc_1.t = "none") # (doc_2.t = "none") => ~compared[1]
        /\ doc_1.t # doc_2.t => ~compared[1]
        /\ (doc_1.t = "dict" /\ doc_2.t = "dict" /\ compared[1]) =>
              /\ (DOMAIN doc_1.v) \ ignored = (DOMAIN doc_2.v) \ ignored
              /\ \A key \in (DOMAIN doc_1.v) \ ignored : Equal(doc_1.v[key], doc_2.v[key])
        /\ (doc_1.t = "list" /\ doc_2.t = "list" /\ compared[1]) =>
              /\ Len(doc_1.v) = Len(doc_2.v)
              /\ \A index \in 1..Len(doc_1.v) : Equal(doc_1.v[index], doc_2.v[index])
        /\ (/\ doc_1.t = "list"
            /\ doc_2.t = "list"
            /\ Len(doc_1.v) = 2
            /\ doc_2.v = << doc_1.v[2], doc_1.v[1] >>
            /\ ~Equal(doc_1.v[1], doc_1.v[2])) => ~compared[1]

\* a sequence and its reverse have been compared, and differ
C38_Witness ==
    /\ Len(compared) >= 1
    /\ ~compared[1]
    /\ doc_1 = ListDoc(<< IntDoc(1), NoneDoc >>)
    /\ doc_2 = ListDoc(<< NoneDoc, IntDoc(1) >>)

\* the integer 0 and the float 0.0, and True and the integer 1, have been
\* compared, and differ
C38_TypesDiffer ==
    /\ Len(compared) >= 1
    /\ ~compared[1]
    /\ \/ doc_1 = IntDoc(0) /\ doc_2 = FloatDoc("finite", 0)
       \/ doc_1 = BoolDoc(TRUE) /\ doc_2 = IntDoc(1)

ReportedValid == call_result # << >> /\ call_result[1].returned = "tuple" /\ call_result[1].valid_workflow

WellFormed(yaml_data) ==
    /\ yaml_data.parses
    /\ yaml_data.is_dict
    /\ yaml_data.api_version = "argoproj.io/v1alpha1"
    /\ yaml_data.kind = "Workflow"
    /\ yaml_data.metadata
    /\ yaml_data.spec

UnnamedInput(yaml_data) ==
    \E i \in DOMAIN yaml_data.pipeline_spec_json.inputs :
        yaml_data.pipeline_spec_json.inputs[i].name = None

\* every declared input maps to the flag of its last declaration
InputsMapped(yaml_data, input_parameters) ==
    LET inputs == yaml_data.pipeline_spec_json.inputs
    IN  /\ DOMAIN input_parameters = {inputs[i].name : i \in DOMAIN inputs}
        /\ \A i \in DOMAIN inputs :
              (\A j \in DOMAIN inputs : j > i => inputs[j].name # inputs[i].name) =>
                  input_parameters[inputs[i].name] = (inputs[i].optional = "True")

C35_ValidateWorkflow ==
    call_result # << >> =>
        /\ ReportedValid => WellFormed(call_args[1])
        /\ (\/ call_args[1].pipeline_spec_json.text \in {"missing", "empty", "unparsable"}
            \/ UnnamedInput(call_args[1])) => ~ReportedValid
        /\ ReportedValid => InputsMapped(call_args[1], call_result[1].input_parameters)

\* what holds: the same with the empty annotation taken out of the second
\* part; every well-formed manifest with an empty annotation is reported
\* valid, with no input
C35_ExceptEmptyAnnotation ==
    call_result # << >> =>
        /\ ReportedValid => WellFormed(call_args[1])
        /\ (\/ call_args[1].pipeline_spec_json.text \in {"missing", "unparsable"}
            \/ UnnamedInput(call_args[1])) => ~ReportedValid
        /\ ReportedValid => InputsMapped(call_args[1], call_result[1].input_parameters)
        /\ (WellFormed(call_args[1]) /\ call_args[1].pipeline_spec_json.text = "empty") =>
              (ReportedValid /\ call_result[1].input_parameters = << >>)

\* a well-formed manifest with an empty pipeline_spec annotation has been
\* reported valid
C35_EmptyAnnotationValid ==
    /\ ReportedValid
    /\ WellFormed(call_args[1])
    /\ call_args[1].pipeline_spec_json.text = "empty"

\* a manifest with an input without the optional key has been reported valid
C35_OptionalDefaultsFalse ==
    /\ ReportedValid
    /\ call_args[1].pipeline_spec_json.inputs =
          << [name |-> "a", optional |-> None], [name |-> "b", optional |-> "True"] >>
    /\ call_result[1].input_parameters = [n \in {"a", "b"} |-> n = "b"]

(***************************************************************************)
(* C34: two versions of one job name created at times t1 < t2 have names   *)
(* with name(t1) < name(t2) in the order of strings, so the order of the   *)
(* timestamp fields of the names is the order of creation and the two      *)
(* names differ.                                                           *)
(***************************************************************************)
C34_NamesOrderedByCreation ==
    call_result # << >> =>
        /\ StrLess(call_result[1], call_result[2])
        /\ StrLess(pattern_match(call_result[1]).timestamp,
                   pattern_match(call_result[2]).timestamp)
        /\ call_result[1] # call_result[2]

SameSecond(t1, t2) == [t1 EXCEPT !.microsecond = 0] = [t2 EXCEPT !.microsecond = 0]

\* what holds: the names are ordered as the seconds of the two moments are,
\* and are the same name when both moments are in one second
C34_ExceptSameSecond ==
    call_result # << >> =>
        /\ pattern_match(call_result[1]).matched
        /\ pattern_match(call_result[1]).job_name = call_args[1]
        /\ IF SameSecond(call_args[2], call_args[3])
           THEN call_result[1] = call_result[2]
           ELSE /\ StrLess(call_result[1], call_result[2])
                /\ StrLess(pattern_match(call_result[1]).timestamp,
                           pattern_match(call_result[2]).timestamp)

\* two versions created half a second apart have the same name
C34_SameName ==
    /\ call_result # << >>
    /\ call_args[2].microsecond < call_args[3].microsecond
    /\ call_result[1] = call_result[2]
    /\ call_result[1] = << "G", "I", "T", ":", ":", "a", "_", "_", "b", "_", "_",
                           "1", "9", "9", "9", "-", "0", "9", "-", "1", "0", "T",
                           "0", "9", "-", "1", "0", "-", "0", "9", "Z" >>

(***************************************************************************)
(* C39: enable, disable and delete calls are issued only on remote jobs    *)
(* whose name is exactly GIT::{n}__{timestamp} for the declared job name n *)
(* of the pass, taken as a whole (a version of 'a' is no version of 'a__b' *)
(* and the reverse); every other remote job, a MANUAL:: run or a version   *)
(* of a name that is not declared, stays and keeps its enabled flag.       *)
(***************************************************************************)
ExactVersion(name, job_name) ==
    LET prefix == << "G", "I", "T", ":", ":" >> \o Spelling(job_name) \o << "_", "_" >>
    IN  /\ Len(name) = Len(prefix) + 20
        /\ SubSeq(name, 1, Len(prefix)) = prefix
        /\ IsTimestamp(SubSeq(name, Len(prefix) + 1, Len(name)))

DeclaredNames == {recurring_runs[j].job.name : j \in 1..Len(recurring_runs)}

C39_OnlyVersionsOfDeclaredJobs ==
    [][\* a remote job that is deleted or gets another enabled flag
       /\ \A j \in remote_jobs :
             j \notin remote_jobs' =>
                 /\ pc \in PassPositions
                 /\ job_i \in 1..Len(recurring_runs)
                 /\ ExactVersion(j.name, recurring_runs[job_i].job.name)
       \* the job an enable, disable or delete call is issued on
       /\ (/\ Len(calls') = Len(calls) + 1
           /\ calls'[Len(calls')].op \in {"enable_job", "disable_job", "delete_job"}) =>
              \A j \in remote_jobs :
                 j.id = calls'[Len(calls')].target =>
                    ExactVersion(j.name, recurring_runs[calls'[Len(calls')].job].job.name)
      ]_vars

\* only 'a' is declared; its stale version has been replaced and deleted,
\* and the version of 'a__b' is there and enabled as before
C39_Witness ==
    /\ status = "done"
    /\ DeclaredNames = {"a"}
    /\ \E i \in 1..Len(calls) : calls[i].op = "delete_job" /\ calls[i].target = 1 /\ calls[i].ok
    /\ \E j \in remote_jobs :
          /\ j.id = 2
          /\ j.enabled
          /\ j.name = << "G", "I", "T", ":", ":", "a", "_", "_", "b", "_", "_",
                         "2", "0", "0", "0", "-", "0", "1", "-", "0", "1", "T",
                         "0", "0", "-", "0", "0", "-", "0", "1", "Z" >>

(***************************************************************************)
(* C36: when a run aborts on a platform error in the pass over the i-th    *)
(* declared job, every job declared before it has had its complete pass,   *)
(* no create, enable, disable or delete call has been made for a job       *)
(* declared after it, and what the calls before the error did stands.      *)
(***************************************************************************)
AbortedInPass == status = "aborted" /\ pc \in PassPositions

\* the successful calls of the run that create a version
Creates == {i \in 1..Len(calls) : calls[i].op = "create_recurring_run" /\ calls[i].ok}

\* the effect of every successful call of the run is in the remote state
EffectsStand ==
    /\ \A i \in 1..Len(calls) :
          (calls[i].ok /\ calls[i].op = "delete_job") =>
              ~\E v \in remote_jobs : v.id = calls[i].target
    /\ \A i \in 1..Len(calls) :
          (/\ calls[i].ok
           /\ calls[i].op \in {"enable_job", "disable_job"}
           /\ ~\E k \in (i + 1)..Len(calls) :
                 /\ calls[k].ok
                 /\ calls[k].op \in {"enable_job", "disable_job", "delete_job"}
                 /\ calls[k].target = calls[i].target) =>
              \E v \in remote_jobs :
                 v.id = calls[i].target /\ v.enabled = (calls[i].op = "enable_job")
    /\ \A id \in (next_id - Cardinality(Creates))..(next_id - 1) :
          \/ \E v \in remote_jobs : v.id = id
          \/ \E i \in 1..Len(calls) :
                calls[i].ok /\ calls[i].op = "delete_job" /\ calls[i].target = id

C36_AbortKeepsEarlierPasses ==
    AbortedInPass =>
        /\ ~calls[Len(calls)].ok
        /\ calls[Len(calls)].job = job_i
        /\ \A j \in 1..(job_i - 1) :
              /\ CallsAt(j, {"list_jobs"}) # {}
              /\ \A i \in CallsAt(j, PassPositions) : calls[i].ok
              /\ (~dry_run /\ recurring_runs[j].keep_history # 0) => Converged(j)
              /\ ~dry_run => Cardinality(EnabledVersions(JobName(j))) <= 1
              /\ (~dry_run /\ recurring_runs[j].keep_history # -1) =>
                    Cardinality(Versions(JobName(j))) <= recurring_runs[j].keep_history
        /\ \A j \in (job_i + 1)..Len(recurring_runs) : CallsAt(j, PassPositions) = {}
        /\ \A i \in 1..Len(calls) : \A k \in i..Len(calls) :
              (calls[i].job > 0 /\ calls[k].job > 0) => calls[i].job <= calls[k].job
        /\ EffectsStand

\* the run aborts in the pass over the second of two declared jobs, at a
\* call after the new version of that job was created; the first job had a
\* stale version and has been replaced
C36_Witness ==
    /\ AbortedInPass
    /\ ~dry_run
    /\ job_i = 2
    /\ calls[Len(calls)].at \in {"disable_previous", "enable_new", "delete_job"}
    /\ CallsAt(1, {"create_recurring_run"}) # {}
    /\ CallsAt(2, {"create_recurring_run"}) # {}
    /\ Converged(1)

(***************************************************************************)
(* C37: the latest version is classified stale iff at least one compared   *)
(* field differs from the resolved job: description, experiment id,        *)
(* max_concurrency, service account (the default runner account where none *)
(* is declared), parameters (empty and None values taken as equal),        *)
(* catchup, start date, end date, cron, interval seconds, or the manifest  *)
(* under the comparator; the enabled flag and the versioned name of the    *)
(* version make no difference.                                             *)
(***************************************************************************)
\* the moment a date-time string denotes
MomentOf(date_string) == datetime_of(date_string)

SameParameters(p, q) ==
    /\ DOMAIN p = DOMAIN q
    /\ \A n \in DOMAIN p : (IF p[n] = None THEN "" ELSE p[n]) = (IF q[n] = None THEN "" ELSE q[n])

\* a compared field of the declaration the version was made of differs
\* from the resolved job
FieldDiffers(created, job) ==
    \/ created.description # job.description
    \/ created.experiment_id # job.experiment_id
    \/ created.max_concurrency # job.max_concurrency
    \/ job_service_account(created) # job_service_account(job)
    \/ ~SameParameters(created.parameters, job.parameters)
    \/ created.catchup # job.catchup
    \/ MomentOf(created.start_date) # MomentOf(job.start_date)
    \/ MomentOf(created.end_date) # MomentOf(job.end_date)
    \/ created.cron # job.cron
    \/ created.interval_seconds # job.interval_seconds
    \/ ~compare_workflows(created.workflow, job.workflow)

C37_StaleIffFieldDiffers ==
    call_result # << >> => (~call_result[1] <=> FieldDiffers(call_args[2], call_args[3]))

\* what holds: the same when a date of the resolved job counts as different
\* unless it is written as isoformat() writes it
C37_ExceptDateNotation ==
    call_result # << >> =>
        (~call_result[1] <=>
            \/ FieldDiffers(call_args[2], call_args[3])
            \/ call_args[3].start_date = "2030-01-01T00:00:00Z"
            \/ call_args[3].end_date = "2030-01-01T00:00:00Z")

\* the version made of a declaration is stale for that same declaration
C37_StaleForItsOwnDeclaration ==
    /\ call_result = << FALSE >>
    /\ call_args[2] = call_args[3]
    /\ call_args[3].start_date = "2030-01-01T00:00:00Z"

\* a disabled version with another timestamp in its name is up to date, the
\* declared empty service account and the default runner account being one
C37_FlagAndNameIgnored ==
    /\ call_result = << TRUE >>
    /\ ~call_args[1].enabled
    /\ timestamp_key(call_args[1]) = strftime(Clock(2))
    /\ call_args[2].service_account = ""
    /\ call_args[3].service_account = DefaultRunnerSA
====
